---- MODULE Spec2Model ----
(***************************************************************************)
(* Formula-detection pipeline of testFlow (backend/ai/model.py and         *)
(* backend/ai/views.py): the PDF orchestrator FormulaDetector.process_pdf  *)
(* with its parallel page units, the per-image pipeline process_image,     *)
(* the LaTeX validators, and the ASGI handlers that persist detections.    *)
(*                                                                         *)
(* A text is a sequence of one-character strings, so that the substring    *)
(* and regular-expression tests of the code are computed character by      *)
(* character.                                                              *)
(***************************************************************************)
EXTENDS Integers, Sequences, FiniteSets, TLC

(***************************************************************************)
(* Bounds of the model                                                     *)
(***************************************************************************)
\* pages of the uploaded PDF
MaxPages == 2

\* text blocks of one page
MaxBlocks == 2

\* formulas in the text of the whole document
MaxFound == 2

\* embedded images of one page
MaxImages == 1

CpuCount == 2

MaxRegions == 2

(***************************************************************************)
(* Program constants                                                       *)
(***************************************************************************)
PageLimit == 50

PersistThreshold == 90

(***************************************************************************)
(* Characters and small text helpers                                       *)
(***************************************************************************)
BS == "\\"

Lower == {"a","b","c","d","e","f","g","h","i","j","k","l","m",
          "n","o","p","q","r","s","t","u","v","w","x","y","z"}

Upper == {"A","B","C","D","E","F","G","H","I","J","K","L","M",
          "N","O","P","Q","R","S","T","U","V","W","X","Y","Z"}

Letters == Lower \cup Upper

Digits == {"0","1","2","3","4","5","6","7","8","9"}

Whitespace == {" ", "\t", "\n"}

Min(a, b) == IF a < b THEN a ELSE b

\* Python's `sub in s` for strings
Contains(s, sub) ==
    \E i \in 1..(Len(s) - Len(sub) + 1) : SubSeq(s, i, i + Len(sub) - 1) = sub

HasCharIn(s, set) == \E i \in 1..Len(s) : s[i] \in set

\* the command names, spelled without the backslash
cFrac == <<"f","r","a","c">>
cSum == <<"s","u","m">>
cInt == <<"i","n","t">>
cSqrt == <<"s","q","r","t">>
cLim == <<"l","i","m">>
cInfty == <<"i","n","f","t","y">>
cAlpha == <<"a","l","p","h","a">>
cBeta == <<"b","e","t","a">>
cGamma == <<"g","a","m","m","a">>
cDelta == <<"d","e","l","t","a">>
cSin == <<"s","i","n">>
cCos == <<"c","o","s">>
cTan == <<"t","a","n">>
cLog == <<"l","o","g">>
cLn == <<"l","n">>
cPartial == <<"p","a","r","t","i","a","l">>
cNabla == <<"n","a","b","l","a">>
cVec == <<"v","e","c">>
cMatrix == <<"m","a","t","r","i","x">>

\* one backslash followed by the name: what the regex r'\\name' matches
Cmd(name) == <<BS>> \o name

\* two backslashes followed by the name: the plain string r'\\name'
Cmd2(name) == <<BS, BS>> \o name

(***************************************************************************)
(* LatexProcessor.is_valid_latex                                           *)
(***************************************************************************)
\* r'\\[a-zA-Z]+X' with X a character of the set `after`
MatchCmdThen(s, after) ==
    \E i \in 1..Len(s) : \E j \in (i + 2)..Len(s) :
        /\ s[i] = BS
        /\ \A k \in (i + 1)..(j - 1) : s[k] \in Letters
        /\ s[j] \in after

\* r'\$.*\$' ('.' does not match a newline)
MatchDollarPair(s) ==
    \E i \in 1..Len(s) : \E j \in (i + 1)..Len(s) :
        /\ s[i] = "$"
        /\ s[j] = "$"
        /\ \A k \in (i + 1)..(j - 1) : s[k] # "\n"

\* a validity test that knows the first pattern only
is_valid_latex_braced(text) == MatchCmdThen(text, {"{"})

ValidCommands ==
    { cFrac, cSum, cInt, cSqrt, cLim, cInfty, cAlpha, cBeta, cGamma, cDelta,
      cSin, cCos, cTan, cLog, cLn, cPartial, cNabla, cVec, cMatrix }

is_valid_latex(text) ==
    \/ MatchCmdThen(text, {"{"})
    \/ MatchCmdThen(text, Whitespace)
    \/ MatchDollarPair(text)
    \/ HasCharIn(text, Digits)
    \/ HasCharIn(text, {"+", "-", "*", "/", "="})
    \/ \E c \in ValidCommands : Contains(text, Cmd(c))

(***************************************************************************)
(* FormulaDetector._check_balanced_structure and                           *)
(* ModelManager._check_symbol_balance: the same stack matcher              *)
(***************************************************************************)
Openers == {"{", "[", "("}

Closers == {"}", "]", ")"}

CloserOf(c) == IF c = "{" THEN "}" ELSE IF c = "[" THEN "]" ELSE ")"

RECURSIVE StackScanAnyCloser(_, _, _)
\* a matcher that pops on any closer without comparing it to the opener
StackScanAnyCloser(s, i, stack) ==
    IF i > Len(s) THEN Len(stack) = 0
    ELSE IF s[i] \in Openers THEN StackScanAnyCloser(s, i + 1, Append(stack, s[i]))
    ELSE IF s[i] \in Closers THEN
        IF Len(stack) = 0 THEN FALSE
        ELSE StackScanAnyCloser(s, i + 1, SubSeq(stack, 1, Len(stack) - 1))
    ELSE StackScanAnyCloser(s, i + 1, stack)

RECURSIVE StackScan(_, _, _)
\* the for loop over the characters from position i with the stack `stack`
StackScan(s, i, stack) ==
    IF i > Len(s) THEN Len(stack) = 0
    ELSE IF s[i] \in Openers THEN StackScan(s, i + 1, Append(stack, s[i]))
    ELSE IF s[i] \in Closers THEN
        IF Len(stack) = 0 THEN FALSE
        ELSE IF s[i] # CloserOf(stack[Len(stack)]) THEN FALSE
        ELSE StackScan(s, i + 1, SubSeq(stack, 1, Len(stack) - 1))
    ELSE StackScan(s, i + 1, stack)

check_balanced_structure(formula) == StackScan(formula, 1, <<>>)

check_symbol_balance(latex) == StackScan(latex, 1, <<>>)

(***************************************************************************)
(* LatexProcessor.classify_problem: the table in its dictionary order;     *)
(* every pattern is an alternation of literal texts (the braces of         *)
(* \\frac{d}{d[x-z]} are literal, [x-z] one of x, y, z)                     *)
(***************************************************************************)
cPi == <<"p","i">>
cMathrm == <<"m","a","t","h","r","m">>
cText == <<"t","e","x","t">>
cOperatorname == <<"o","p","e","r","a","t","o","r","n","a","m","e">>
cBegin == <<"b","e","g","i","n">>
cEnd == <<"e","n","d">>

\* \frac{d}{dv}
DerivativeBy(v) == Cmd(cFrac) \o <<"{","d","}","{","d">> \o <<v>> \o <<"}">>

Braced(name) == <<"{">> \o name \o <<"}">>

Default == "Expresion algebraica"

\* a table that tests the general equation pattern before the others
TypesGeneralFirst ==
    << [alts |-> { <<"=">> }, label |-> "Ecuacion"],
       [alts |-> { Cmd(cInt) }, label |-> "Integral"],
       [alts |-> { Cmd(cLim) }, label |-> "Limite"],
       [alts |-> { DerivativeBy(v) : v \in {"x", "y", "z"} }, label |-> "Derivada"],
       [alts |-> { Cmd(cSum) }, label |-> "Suma"] >>

Types ==
    << [alts |-> { Cmd(cInt) }, label |-> "Integral"],
       [alts |-> { Cmd(cLim) }, label |-> "Limite"],
       [alts |-> { DerivativeBy(v) : v \in {"x", "y", "z"} }, label |-> "Derivada"],
       [alts |-> { Cmd(cSum) }, label |-> "Suma"],
       [alts |-> { <<"=">> }, label |-> "Ecuacion"],
       [alts |-> { Cmd(cSqrt) }, label |-> "Raiz"],
       [alts |-> { Cmd(cLog) }, label |-> "Logaritmo"],
       [alts |-> { Cmd(cSin), Cmd(cCos), Cmd(cTan) }, label |-> "Trigonometria"],
       [alts |-> { Cmd(cMatrix) }, label |-> "Matriz"],
       [alts |-> { Cmd(cVec) }, label |-> "Vector"],
       [alts |-> { Cmd(cAlpha), Cmd(cBeta), Cmd(cGamma), Cmd(cDelta) },
        label |-> "Letras griegas"],
       [alts |-> { Cmd(cPi) }, label |-> "Numero pi"],
       [alts |-> { Cmd(cInfty) }, label |-> "Infinito"],
       [alts |-> { Cmd(cPartial) }, label |-> "Derivada parcial"],
       [alts |-> { Cmd(cNabla) }, label |-> "Gradiente"],
       [alts |-> { Cmd(cMathrm) }, label |-> "Funcion matematica"],
       [alts |-> { Cmd(cText) }, label |-> "Texto"],
       [alts |-> { Cmd(cOperatorname) }, label |-> "Operador"],
       [alts |-> { Cmd(cBegin) \o Braced(cMatrix) }, label |-> "Matriz"],
       [alts |-> { Cmd(cEnd) \o Braced(cMatrix) }, label |-> "Matriz"],
       [alts |-> { Cmd(cBegin) \o Braced(cSum) }, label |-> "Sumatoria"],
       [alts |-> { Cmd(cEnd) \o Braced(cSum) }, label |-> "Sumatoria"] >>

\* re.search(pattern, latex_formula) for the pattern of an entry
Searches(entry, latex_formula) == \E a \in entry.alts : Contains(latex_formula, a)

RECURSIVE ClassifyFrom(_, _)
\* the loop over types.items() from entry i
ClassifyFrom(latex_formula, i) ==
    IF i > Len(Types) THEN Default
    ELSE IF Searches(Types[i], latex_formula) THEN Types[i].label
    ELSE ClassifyFrom(latex_formula, i + 1)

classify_problem(latex_formula) == ClassifyFrom(latex_formula, 1)

(***************************************************************************)
(* FormulaDetector._calculate_confidence, in hundredths                    *)
(***************************************************************************)
MathSymbols == { Cmd2(cFrac), Cmd2(cSum), Cmd2(cInt), Cmd2(cSqrt) }

\* a score whose length bonus goes to the short texts
calculate_confidence_short(formula) ==
    Min(100,
        (IF Len(formula) < 10 THEN 20 ELSE 0)
        + 15 * Cardinality({ m \in MathSymbols : Contains(formula, m) })
        + (IF check_balanced_structure(formula) THEN 20 ELSE 0)
        + (IF is_valid_latex(formula) THEN 30 ELSE 0))

\* the sum of the bonuses times 100, capped; floating-point rounding of the
\* sum (85.00000000000001 for 85) is left out
calculate_confidence(formula) ==
    Min(100,
        (IF Len(formula) > 10 THEN 20 ELSE 0)
        + 15 * Cardinality({ m \in MathSymbols : Contains(formula, m) })
        + (IF check_balanced_structure(formula) THEN 20 ELSE 0)
        + (IF is_valid_latex(formula) THEN 30 ELSE 0))

(***************************************************************************)
(* LatexProcessor.clean_latex: whitespace runs collapse to one space and   *)
(* the text is stripped; then sympy's parse_latex/latex round trip either  *)
(* raises (the collapsed text is returned) or returns a re-serialised      *)
(* text.  The round trip is library code: its result is any text of        *)
(* SympyForms.                                                             *)
(***************************************************************************)
RECURSIVE CollapseFrom(_, _, _)
\* re.sub(r"\s+", " ", text): prevWs says the previous character was whitespace
CollapseFrom(s, i, prevWs) ==
    IF i > Len(s) THEN <<>>
    ELSE IF s[i] \in Whitespace
         THEN (IF prevWs THEN <<>> ELSE <<" ">>) \o CollapseFrom(s, i + 1, TRUE)
         ELSE <<s[i]>> \o CollapseFrom(s, i + 1, FALSE)

Strip(s) ==
    LET nonWs == { i \in 1..Len(s) : s[i] \notin Whitespace }
    IN  IF nonWs = {} THEN <<>>
        ELSE SubSeq(s, CHOOSE i \in nonWs : \A j \in nonWs : i <= j,
                       CHOOSE i \in nonWs : \A j \in nonWs : i >= j)

CollapseWs(s) == Strip(CollapseFrom(s, 1, FALSE))

(***************************************************************************)
(* The texts of the model                                                  *)
(***************************************************************************)
\* \\frac{1}{\\sqrt{2}} : long, two constructs, balanced, valid
tQ1 == Cmd2(cFrac) \o <<"{","1","}","{">> \o Cmd2(cSqrt) \o <<"{","2","}","}">>

\* \\int\\sqrt{x} : long, two constructs, balanced, valid
tQ2 == Cmd2(cInt) \o Cmd2(cSqrt) \o <<"{","x","}">>

\* x+1 : short, valid, balanced
tLow == <<"x","+","1">>

\* \\frac\\sqrt\\int{ : long, three constructs, valid, unbalanced
tUnb == Cmd2(cFrac) \o Cmd2(cSqrt) \o Cmd2(cInt) \o <<"{">>

\* (ab) : balanced, but no digit, operator or command
tInv == <<"(","a","b",")">>

Texts == { tQ1, tQ2, tLow, tUnb, tInv }

SympyForms == { tQ1, tLow }

clean_latex_outcomes(text) == { CollapseWs(text) } \cup SympyForms

(***************************************************************************)
(* FormulaDetector._is_potential_formula: plain substring tests.  The      *)
(* indicators are raw strings, so r'\$' is a backslash followed by '$'     *)
(* and r'\\frac' is two backslashes followed by 'frac'.                    *)
(***************************************************************************)
MathIndicators ==
    { <<BS,"$">>, <<BS,"[">>, <<BS,"(">>, Cmd2(cFrac), Cmd2(cSum), Cmd2(cInt),
      Cmd2(cAlpha), Cmd2(cBeta), <<"=">>, <<BS,"+">>, <<"-">>, <<BS,"*">>,
      <<"/">>, <<"^">>, <<"_">>, Cmd2(cSqrt), Cmd2(cLim), Cmd2(cInfty) }

is_potential_formula(text) == \E ind \in MathIndicators : Contains(text, ind)

(***************************************************************************)
(* FormulaDetector._extract_formula_from_text                              *)
(***************************************************************************)
StartsAt(s, i, w) == i + Len(w) - 1 <= Len(s) /\ SubSeq(s, i, i + Len(w) - 1) = w

\* positions where a lazy (.+?) begun right after an opener at i can end
CloseAt(s, i, open, close) ==
    { b \in (i + Len(open) + 1)..Len(s) :
        /\ StartsAt(s, b, close)
        /\ \A k \in (i + Len(open))..(b - 1) : s[k] # "\n" }

RECURSIVE Groups(_, _, _, _)
\* re.finditer(open(.+?)close, s): the groups of the successive matches
Groups(s, i, open, close) ==
    IF i > Len(s) THEN <<>>
    ELSE IF StartsAt(s, i, open) /\ CloseAt(s, i, open, close) # {}
         THEN LET b == CHOOSE x \in CloseAt(s, i, open, close) :
                           \A y \in CloseAt(s, i, open, close) : x <= y
              IN  <<SubSeq(s, i + Len(open), b - 1)>>
                      \o Groups(s, b + Len(close), open, close)
         ELSE Groups(s, i + 1, open, close)

\* the groups of the three patterns, in the order the loops visit them
FormulaMatches(text) ==
    Groups(text, 1, <<"$">>, <<"$">>)
        \o Groups(text, 1, <<BS,"[">>, <<BS,"]">>)
        \o Groups(text, 1, <<BS,"(">>, <<BS,")">>)

None == <<"None">>

\* process_image returns a non-empty list or None
NoResult == <<>>

\* the possible results: None, or clean_latex of the first valid group
extract_formula_from_text(text) ==
    LET m == FormulaMatches(text)
        ok == { i \in 1..Len(m) : is_valid_latex(m[i]) }
    IN  IF ok = {} THEN { None }
        ELSE clean_latex_outcomes(m[CHOOSE i \in ok : \A j \in ok : i <= j])

(***************************************************************************)
(* FormulaDetector._validate_formulas                                      *)
(***************************************************************************)
RECURSIVE ValidateFromLoose(_, _, _, _)
\* a validation loop that has lost its confidence test
ValidateFromLoose(formulas, i, validated, seen) ==
    IF i > Len(formulas) THEN validated
    ELSE LET fd == formulas[i]
         IN  IF fd.formula \in seen
                 THEN ValidateFromLoose(formulas, i + 1, validated, seen)
             ELSE IF is_valid_latex(fd.formula) /\ check_balanced_structure(fd.formula)
                 THEN ValidateFromLoose(formulas, i + 1, Append(validated, fd),
                                        seen \cup {fd.formula})
             ELSE ValidateFromLoose(formulas, i + 1, validated, seen)

RECURSIVE ValidateFrom(_, _, _, _)
\* the loop from index i with the list and the set built so far
ValidateFrom(formulas, i, validated, seen) ==
    IF i > Len(formulas) THEN validated
    ELSE LET fd == formulas[i]
         IN  IF fd.formula \in seen
                 THEN ValidateFrom(formulas, i + 1, validated, seen)
             ELSE IF fd.confidence < PersistThreshold
                 THEN ValidateFrom(formulas, i + 1, validated, seen)
             ELSE IF is_valid_latex(fd.formula) /\ check_balanced_structure(fd.formula)
                 THEN ValidateFrom(formulas, i + 1, Append(validated, fd),
                                   seen \cup {fd.formula})
             ELSE ValidateFrom(formulas, i + 1, validated, seen)

Qualifies(fd) ==
    /\ fd.confidence >= PersistThreshold
    /\ is_valid_latex(fd.formula)
    /\ check_balanced_structure(fd.formula)

\* a validation that filters but never looks at the texts already kept
validate_formulas_keepdups(formulas) == SelectSeq(formulas, Qualifies)

validate_formulas(formulas) == ValidateFrom(formulas, 1, <<>>, {})

(***************************************************************************)
(* ModelManager._clean_formula                                             *)
(***************************************************************************)
ConfFloor == 50

MathChars == {"+", "-", "*", "/", "=", BS, "{", "}", "[", "]", "(", ")"}

clean_formula(latex) ==
    LET l == CollapseWs(latex)
    IN  IF ~check_symbol_balance(l) THEN None
        ELSE IF Len(l) < 3 THEN None
        ELSE IF ~HasCharIn(l, MathChars) THEN None
        ELSE l

(***************************************************************************)
(* State                                                                   *)
(***************************************************************************)
VARIABLES
    docLen,                \* len(doc) of the PDF handed to process_pdf
    pdfPc,                 \* position of process_pdf
    pdfError,              \* the exception process_pdf raised, or "none"
    docOpen,               \* the fitz document is open
    pagePc,                \* position of each page unit (_process_pdf_page)
    imgLeft,               \* images of the page still to visit
    formulas_en_pagina,    \* the list each page unit builds
    future,                \* state of each page's future
    pageErr,               \* "item": an image or block handler caught a raise; "page": the unit's own handler did
    formulas_detectadas,   \* the shared result collection of process_pdf
    processed_pages,       \* counter of process_pdf
    formulas_validadas,    \* the list process_pdf returns
    piPc,                  \* position of each thread inside process_image
    piRegions,             \* regions detection handed on (found), still to process (left)
    piWhole,               \* the whole-image inference was made
    piFormulas,            \* the list `formulas` of process_image
    piResult,              \* the list process_image returned, NoResult for None
    tempDir,               \* files of ImageProcessor.temp_dir
    inferring,             \* threads inside model.generate
    reqPc,                 \* position of each HTTP request's handler
    reqHandler,            \* the handler the request is routed to
    reqMethod,             \* scope["method"]
    reqBody,               \* the bytes of the request body
    responses,             \* the messages the handler has sent
    collection,            \* the persistence collection (insert_one appends)
    redisCache,            \* content of the Redis cache
    pipelineRuns,          \* per body, how often a handler ran process_image
    pdfInserted,           \* entries procesar_pdf has inserted so far
    pdfStatus,             \* status procesar_pdf answered with, 0 before
    fnArg,                 \* the text handed to a function called on its own
    fnName,                \* the function that was called, "none" before
    fnOut,                 \* what it returned
    last_frame,            \* ImageProcessor.last_frame, NoFrame before the first scored frame
    last_result,           \* ImageProcessor.last_result
    attempt,               \* procesar_imagen: the loop variable of each request's insert loop
    retryPc,               \* procesar_imagen: each request's position in its insert loop
    detection              \* procesar_imagen: the formula each request is persisting

pdfVars == <<docLen, pdfPc, pdfError, docOpen, formulas_detectadas,
             processed_pages, formulas_validadas>>

pageVars == <<pagePc, imgLeft, formulas_en_pagina, future, pageErr>>

piVars == <<piPc, piRegions, piWhole, piFormulas, piResult>>

sharedVars == <<tempDir, inferring>>

httpVars == <<reqPc, reqHandler, reqMethod, reqBody, responses, collection,
              redisCache, pipelineRuns, pdfInserted, pdfStatus>>

fnVars == <<fnArg, fnName, fnOut>>

frameVars == <<last_frame, last_result>>

retryVars == <<attempt, retryPc, detection>>

\* what the steps of process_image, of a page unit, of process_pdf and of a
\* request handler leave alone besides the variables they list
PiFrame == <<pdfVars, pageVars, httpVars, fnVars, frameVars,
            retryVars>>

PageFrame == <<pdfVars, httpVars, fnVars, frameVars,
            retryVars>>

PdfFrame == <<httpVars, fnVars, frameVars,
            retryVars>>

PageIds == 1..MaxPages

PageThreads == { <<"page", p>> : p \in PageIds }

MaxReqs == 2

ReqIds == 1..MaxReqs

ReqThreads == { <<"req", r>> : r \in ReqIds }

Threads == PageThreads \cup ReqThreads

PageCounts == (0..MaxPages) \cup {PageLimit + 1}

\* a file of the temp directory: the debug image of a stage, written by a thread
DebugFile(stage, t) == [stage |-> stage, by |-> t]

PreprocessStages == 1..7

(***************************************************************************)
(* The text blocks a PDF page can hold                                     *)
(***************************************************************************)
\* \[\\frac{1}{\\sqrt{2}}\]
bDisplayQ1 == <<BS,"[">> \o tQ1 \o <<BS,"]">>

\* $\\int\\sqrt{x}$
bDollarQ2 == <<"$">> \o tQ2 \o <<"$">>

\* $\\frac\\sqrt\\int{$
bDollarUnb == <<"$">> \o tUnb \o <<"$">>

\* =  $x+1$ : two spaces after the sign
bEqLow == <<"=", " ", " ", "$">> \o tLow \o <<"$">>

\* $x+1$
bDollarLow == <<"$">> \o tLow \o <<"$">>

\* \((ab)\)
bParenInv == <<BS,"(">> \o tInv \o <<BS,")">>

\* a=b
bPlain == <<"a","=","b">>

Blocks == { bDisplayQ1, bDollarQ2, bDollarUnb, bEqLow, bDollarLow, bParenInv, bPlain }

(***************************************************************************)
(* Initial state: nothing submitted, the detector constructed (the         *)
(* ImageProcessor constructor empties the temp directory)                  *)
(***************************************************************************)
InitPdfVars ==
    /\ docLen \in PageCounts
    /\ pdfPc = "Submitted"
    /\ pdfError = "none"
    /\ docOpen = FALSE
    /\ formulas_detectadas = <<>>
    /\ processed_pages = 0
    /\ formulas_validadas = <<>>

InitPageVars ==
    /\ pagePc = [p \in PageIds |-> "none"]
    /\ imgLeft = [p \in PageIds |-> 0]
    /\ formulas_en_pagina = [p \in PageIds |-> <<>>]
    /\ future = [p \in PageIds |-> "none"]
    /\ pageErr = [p \in PageIds |-> "none"]

\* no region list yet, or an empty one
NoRegions == [found |-> 0, left |-> 0]

InitPiVars ==
    /\ piPc = [t \in Threads |-> "idle"]
    /\ piRegions = [t \in Threads |-> NoRegions]
    /\ piWhole = [t \in Threads |-> FALSE]
    /\ piFormulas = [t \in Threads |-> <<>>]
    /\ piResult = [t \in Threads |-> NoResult]

InitShared ==
    /\ tempDir = {}
    /\ inferring = {}

(***************************************************************************)
(* FormulaDetector.process_image, one thread t                             *)
(***************************************************************************)
\* what the model can decode from a region: a raw text and a score in
\* hundredths (the mean of the per-step maximum probabilities)
RawOutputs == { tUnb, tInv, <<" ">> \o tLow \o <<" ", " ">> }

Scores == {50, 60}

RECURSIVE SortDesc(_)
\* list.sort(key=confidence, reverse=True): stable
SortDesc(fs) ==
    IF Len(fs) <= 1 THEN fs
    ELSE LET rest == SortDesc(SubSeq(fs, 1, Len(fs) - 1))
             x == fs[Len(fs)]
             before == { i \in 1..Len(rest) : rest[i].confidence >= x.confidence }
             k == Cardinality(before)
         IN  SubSeq(rest, 1, k) \o <<x>> \o SubSeq(rest, k + 1, Len(rest))

RECURSIVE UniqueFrom(_, _, _)
\* the seen-set loop: the first entry of each latex text is kept
UniqueFrom(fs, i, seen) ==
    IF i > Len(fs) THEN <<>>
    ELSE IF fs[i].latex \in seen THEN UniqueFrom(fs, i + 1, seen)
    ELSE <<fs[i]>> \o UniqueFrom(fs, i + 1, seen \cup {fs[i].latex})

unique_formulas(fs) == UniqueFrom(SortDesc(fs), 1, {})

\* process_image is at one of its return statements: "ret_pre" after
\* preprocess gave None, "ret_exc" in its except clause, "ret" at its end
AtReturn(t) == piPc[t] \in {"ret_pre", "ret_exc", "ret"}

\* preprocess is entered: the temp directory is emptied and the first debug
\* image written
PiBegin(t) ==
    /\ piPc[t] = "call"
    /\ tempDir' = { DebugFile(1, t) }
    /\ piPc' = [piPc EXCEPT ![t] = "pre"]
    /\ piRegions' = [piRegions EXCEPT ![t] = NoRegions]
    /\ piWhole' = [piWhole EXCEPT ![t] = FALSE]
    /\ piFormulas' = [piFormulas EXCEPT ![t] = <<>>]
    /\ piResult' = [piResult EXCEPT ![t] = NoResult]
    /\ UNCHANGED <<inferring, PiFrame>>

\* the remaining stages of preprocess write their debug images and the
\* result is returned
PiPreprocessOk(t) ==
    /\ piPc[t] = "pre"
    /\ tempDir' = tempDir \cup { DebugFile(k, t) : k \in PreprocessStages \ {1} }
    /\ piPc' = [piPc EXCEPT ![t] = "detect"]
    /\ UNCHANGED <<piRegions, piWhole, piFormulas, piResult, inferring, PiFrame>>

\* a stage of preprocess raises: the temp directory is emptied, preprocess
\* returns None and so does process_image
PiPreprocessFail(t) ==
    /\ piPc[t] = "pre"
    /\ tempDir' = {}
    /\ piPc' = [piPc EXCEPT ![t] = "ret_pre"]
    /\ piResult' = [piResult EXCEPT ![t] = NoResult]
    /\ UNCHANGED <<piRegions, piWhole, piFormulas, inferring, PiFrame>>

\* process_image calls _detect_formula_regions (model.py 713), which no
\* class of model.py defines: the number of candidate regions the
\* heuristic stage hands on is taken from the specification (Regions are
\* created by the heuristic stage and consumed by the inference call);
\* PiDetectFail is the call as the source has it, raising AttributeError
detect_formula_regions == 0..MaxRegions

PiDetect(t) ==
    /\ piPc[t] = "detect"
    /\ \E k \in detect_formula_regions :
           piRegions' = [piRegions EXCEPT ![t] = [found |-> k, left |-> k]]
    /\ piPc' = [piPc EXCEPT ![t] = "loop"]
    /\ UNCHANGED <<piWhole, piFormulas, piResult, sharedVars, PiFrame>>

\* region detection raises: caught by process_image, which returns None
PiDetectFail(t) ==
    /\ piPc[t] = "detect"
    /\ piPc' = [piPc EXCEPT ![t] = "ret_exc"]
    /\ piResult' = [piResult EXCEPT ![t] = NoResult]
    /\ UNCHANGED <<piRegions, piWhole, piFormulas, sharedVars, PiFrame>>

\* process_formula is called for the next region and enters model.generate
PiInferRegion(t) ==
    /\ piPc[t] = "loop"
    /\ piRegions[t].left > 0
    /\ piRegions' = [piRegions EXCEPT ![t].left = @ - 1]
    /\ piPc' = [piPc EXCEPT ![t] = "gen"]
    /\ inferring' = inferring \cup {t}
    /\ UNCHANGED <<piWhole, piFormulas, piResult, tempDir, PiFrame>>

\* no region gave a formula: process_formula is called on the whole image
PiInferWhole(t) ==
    /\ piPc[t] = "loop"
    /\ piRegions[t].left = 0
    /\ piFormulas[t] = <<>>
    /\ ~piWhole[t]
    /\ piWhole' = [piWhole EXCEPT ![t] = TRUE]
    /\ piPc' = [piPc EXCEPT ![t] = "gen"]
    /\ inferring' = inferring \cup {t}
    /\ UNCHANGED <<piRegions, piFormulas, piResult, tempDir, PiFrame>>

\* the candidates process_formula returns for a decoded text and its score
process_formula_result(latex, score) ==
    IF score > ConfFloor /\ clean_formula(latex) # None
    THEN << [latex |-> clean_formula(latex), confidence |-> score] >>
    ELSE <<>>

\* model.generate returns; the output is decoded, scored, filtered, cleaned
PiGenerated(t) ==
    /\ piPc[t] = "gen"
    /\ inferring' = inferring \ {t}
    /\ \E latex \in RawOutputs, score \in Scores :
           piFormulas' = [piFormulas EXCEPT
                              ![t] = @ \o process_formula_result(latex, score)]
    /\ piPc' = [piPc EXCEPT ![t] = "loop"]
    /\ UNCHANGED <<piRegions, piWhole, piResult, tempDir, PiFrame>>

\* the model, the decoding or the scoring raises inside process_formula
PiGenerateFail(t) ==
    /\ piPc[t] = "gen"
    /\ inferring' = inferring \ {t}
    /\ piPc' = [piPc EXCEPT ![t] = "caught"]
    /\ UNCHANGED <<piRegions, piWhole, piFormulas, piResult, tempDir, PiFrame>>

\* the crop of the region or _prepare_image raises inside process_formula,
\* called for the next region or for the whole image
PiPrepareFail(t) ==
    /\ piPc[t] = "loop"
    /\ \/ /\ piRegions[t].left > 0
          /\ piRegions' = [piRegions EXCEPT ![t].left = @ - 1]
          /\ UNCHANGED piWhole
       \/ /\ piRegions[t].left = 0
          /\ piFormulas[t] = <<>>
          /\ ~piWhole[t]
          /\ piWhole' = [piWhole EXCEPT ![t] = TRUE]
          /\ UNCHANGED piRegions
    /\ piPc' = [piPc EXCEPT ![t] = "caught"]
    /\ UNCHANGED <<piFormulas, piResult, sharedVars, PiFrame>>

\* a failure of process_formula that process_image's own handler catches
PiFormulaPropagates(t) ==
    /\ piPc[t] = "caught"
    /\ piPc' = [piPc EXCEPT ![t] = "ret_exc"]
    /\ piResult' = [piResult EXCEPT ![t] = NoResult]
    /\ UNCHANGED <<piRegions, piWhole, piFormulas, sharedVars, PiFrame>>

\* the except clause of process_formula logs and returns []: the loop of
\* process_image extends `formulas` by nothing and goes on
PiFormulaCaught(t) ==
    /\ piPc[t] = "caught"
    /\ piPc' = [piPc EXCEPT ![t] = "loop"]
    /\ UNCHANGED <<piRegions, piWhole, piFormulas, piResult, sharedVars, PiFrame>>

\* sort by confidence, drop duplicates, return the list or None
PiReturn(t) ==
    /\ piPc[t] = "loop"
    /\ piRegions[t].left = 0
    /\ piFormulas[t] # <<>> \/ piWhole[t]
    /\ piResult' = [piResult EXCEPT
                        ![t] = IF unique_formulas(piFormulas[t]) # <<>>
                               THEN unique_formulas(piFormulas[t]) ELSE NoResult]
    /\ piPc' = [piPc EXCEPT ![t] = "ret"]
    /\ piFormulas' = [piFormulas EXCEPT ![t] = <<>>]
    /\ piWhole' = [piWhole EXCEPT ![t] = FALSE]
    /\ piRegions' = [piRegions EXCEPT ![t] = NoRegions]
    /\ UNCHANGED <<sharedVars, PiFrame>>

(***************************************************************************)
(* FormulaDetector.process_pdf and its page units                          *)
(***************************************************************************)
\* a page-count test that has lost its upper limit
page_count_ok_nomax(n) == ~(n < 1)

\* the two limits of process_pdf: neither raise is taken
page_count_ok(n) == ~(n > PageLimit) /\ ~(n < 1)

DocPages == { p \in PageIds : p <= docLen }

max_workers == Min(CpuCount, docLen)

Running == { p \in PageIds : pagePc[p] \in {"images", "image_call"} }

Candidate(f, p, origen) ==
    [formula |-> f, pagina |-> p,
     confidence |-> calculate_confidence(f), origen |-> origen]

\* the document is opened and its page count is out of bounds: ValueError,
\* re-raised after the finally clause has closed the document
PdfReject ==
    /\ pdfPc = "Submitted"
    /\ ~page_count_ok(docLen)
    /\ pdfPc' = "Failed"
    /\ pdfError' = "page-count"
    /\ docOpen' = FALSE
    /\ UNCHANGED <<docLen, formulas_detectadas, processed_pages,
                   formulas_validadas, pageVars, piVars, sharedVars, PdfFrame>>

\* the document is opened and one unit per page is submitted to the pool
PdfDispatch ==
    /\ pdfPc = "Submitted"
    /\ page_count_ok(docLen)
    /\ pdfPc' = "PagesDispatched"
    /\ docOpen' = TRUE
    /\ pagePc' = [p \in PageIds |-> IF p \in DocPages THEN "queued" ELSE "none"]
    /\ future' = [p \in PageIds |-> IF p \in DocPages THEN "pending" ELSE "none"]
    /\ UNCHANGED <<docLen, pdfError, formulas_detectadas, processed_pages,
                   formulas_validadas, imgLeft,
                   formulas_en_pagina, pageErr, piVars, sharedVars, PdfFrame>>

\* a worker is free for the oldest queued unit
CanStart(p) ==
    /\ pagePc[p] = "queued"
    /\ \A q \in PageIds : q < p => pagePc[q] # "queued"
    /\ Cardinality(Running) < max_workers

\* the unit starts; page.get_images returns the page's image list
PageStart(p) ==
    /\ CanStart(p)
    /\ \E k \in 0..MaxImages : imgLeft' = [imgLeft EXCEPT ![p] = k]
    /\ pagePc' = [pagePc EXCEPT ![p] = "images"]
    /\ formulas_en_pagina' = [formulas_en_pagina EXCEPT ![p] = <<>>]
    /\ UNCHANGED <<future, pageErr, PageFrame, piVars, sharedVars>>

\* the unit starts and page.get_images raises: the unit returns []
PageStartFail(p) ==
    /\ CanStart(p)
    /\ pagePc' = [pagePc EXCEPT ![p] = "done"]
    /\ formulas_en_pagina' = [formulas_en_pagina EXCEPT ![p] = <<>>]
    /\ future' = [future EXCEPT ![p] = "done"]
    /\ pageErr' = [pageErr EXCEPT ![p] = "page"]
    /\ UNCHANGED <<imgLeft, PageFrame, piVars, sharedVars>>

\* what _extract_image can hand back for an embedded image
ImageKinds == {"unreadable", "empty", "zero_pixel", "one_pixel", "many_pixels"}

\* `if base_image:` on None or on a numpy array
image_truth(kind) ==
    IF kind \in {"unreadable", "empty", "zero_pixel"} THEN "false"
    ELSE IF kind = "one_pixel" THEN "true"
    ELSE "raise"

\* an image that is falsy (None, an empty array, one zero pixel) is skipped
PageImageSkip(p) ==
    /\ pagePc[p] = "images"
    /\ imgLeft[p] > 0
    /\ \E kind \in ImageKinds : image_truth(kind) = "false"
    /\ imgLeft' = [imgLeft EXCEPT ![p] = @ - 1]
    /\ UNCHANGED <<pagePc, formulas_en_pagina, future, pageErr, PageFrame,
                   piVars, sharedVars>>

\* an array of more than one pixel: its truth test raises ValueError, which
\* the image's handler catches and logs
PageImageRaise(p) ==
    /\ pagePc[p] = "images"
    /\ imgLeft[p] > 0
    /\ \E kind \in ImageKinds : image_truth(kind) = "raise"
    /\ imgLeft' = [imgLeft EXCEPT ![p] = @ - 1]
    /\ pageErr' = [pageErr EXCEPT ![p] = "item"]
    /\ UNCHANGED <<pagePc, formulas_en_pagina, future, PageFrame,
                   piVars, sharedVars>>

\* an image that is handed to process_image
PageImageCall(p) ==
    /\ pagePc[p] = "images"
    /\ imgLeft[p] > 0
    /\ \E kind \in ImageKinds : image_truth(kind) = "true"
    /\ pagePc' = [pagePc EXCEPT ![p] = "image_call"]
    /\ piPc' = [piPc EXCEPT ![<<"page", p>>] = "call"]
    /\ UNCHANGED <<imgLeft, formulas_en_pagina, future, pageErr,
                   PageFrame, piRegions, piWhole, piFormulas, piResult, sharedVars>>

\* process_image returned.  None is skipped; a list makes classify_problem
\* raise TypeError (re.search on a list), caught by the image's handler:
\* nothing is appended either way
PageImageDone(p) ==
    /\ pagePc[p] = "image_call"
    /\ AtReturn(<<"page", p>>)
    /\ piPc' = [piPc EXCEPT ![<<"page", p>>] = "idle"]
    /\ piResult' = [piResult EXCEPT ![<<"page", p>>] = NoResult]
    /\ pagePc' = [pagePc EXCEPT ![p] = "images"]
    /\ imgLeft' = [imgLeft EXCEPT ![p] = @ - 1]
    /\ pageErr' = [pageErr EXCEPT
                       ![p] = IF piResult[<<"page", p>>] # NoResult THEN "item" ELSE @]
    /\ UNCHANGED <<formulas_en_pagina, future, PageFrame,
                   piRegions, piWhole, piFormulas, sharedVars>>

\* what one text block hands to the page's list: the text to append (None
\* for no entry) and whether the visit raised.  A block that is no potential
\* formula, or whose extraction returns None or an empty text, appends
\* nothing; a raise is caught and logged and the block is skipped
block_visit(text, f) ==
    [add |-> IF is_potential_formula(text) /\ f # None /\ f # <<>>
             THEN f ELSE None,
     err |-> FALSE]

BlockVisits ==
    { block_visit(tf[1], tf[2]) :
          tf \in { x \in Blocks \X (Texts \cup {None}) :
                       x[2] \in extract_formula_from_text(x[1]) } }
        \cup { [add |-> None, err |-> TRUE] }

RECURSIVE BlockLoops(_)
\* the loop over n text blocks: the texts appended, in order, and whether
\* some visit raised
BlockLoops(n) ==
    IF n = 0 THEN { [add |-> <<>>, err |-> FALSE] }
    ELSE { [add |-> IF v.add = None THEN r.add ELSE Append(r.add, v.add),
            err |-> r.err \/ v.err] :
               r \in BlockLoops(n - 1), v \in BlockVisits }

PageRuns == UNION { BlockLoops(n) : n \in 0..MaxBlocks }

RECURSIVE FoundUpTo(_)
\* the entries the units of pages 1..p have found in their text so far
FoundUpTo(p) == IF p = 0 THEN 0 ELSE Len(formulas_en_pagina[p]) + FoundUpTo(p - 1)

\* the document's text holds at most MaxFound formulas
FitsDocument(run) == FoundUpTo(MaxPages) + Len(run.add) <= MaxFound

PageEntries(run, p) == [i \in 1..Len(run.add) |-> Candidate(run.add[i], p, "texto")]

\* the images are done; page.get_text returns the text blocks, each is
\* visited without a raise and the unit returns its list
PageTexts(p) ==
    /\ pagePc[p] = "images"
    /\ imgLeft[p] = 0
    /\ \E run \in PageRuns :
          /\ ~run.err
          /\ FitsDocument(run)
          /\ formulas_en_pagina' = [formulas_en_pagina EXCEPT ![p] = PageEntries(run, p)]
    /\ pagePc' = [pagePc EXCEPT ![p] = "done"]
    /\ future' = [future EXCEPT ![p] = "done"]
    /\ UNCHANGED <<imgLeft, pageErr, PageFrame, piVars, sharedVars>>

\* the same, but the visit of at least one text block raises: the block's
\* handler logs it, the loop goes on and the unit returns its list
PageTextsBlockRaise(p) ==
    /\ pagePc[p] = "images"
    /\ imgLeft[p] = 0
    /\ \E run \in PageRuns :
          /\ run.err
          /\ FitsDocument(run)
          /\ formulas_en_pagina' = [formulas_en_pagina EXCEPT ![p] = PageEntries(run, p)]
    /\ pagePc' = [pagePc EXCEPT ![p] = "done"]
    /\ future' = [future EXCEPT ![p] = "done"]
    /\ pageErr' = [pageErr EXCEPT ![p] = "item"]
    /\ UNCHANGED <<imgLeft, PageFrame, piVars, sharedVars>>

\* a unit handler that returns what the page has gathered when it catches
\* the raise
PageTextsFailKeeps(p) ==
    /\ pagePc[p] = "images"
    /\ imgLeft[p] = 0
    /\ \E run \in PageRuns :
          /\ FitsDocument(run)
          /\ formulas_en_pagina' = [formulas_en_pagina EXCEPT ![p] = PageEntries(run, p)]
    /\ pagePc' = [pagePc EXCEPT ![p] = "done"]
    /\ future' = [future EXCEPT ![p] = "done"]
    /\ pageErr' = [pageErr EXCEPT ![p] = "page"]
    /\ UNCHANGED <<imgLeft, PageFrame, piVars, sharedVars>>

\* page.get_text raises: the unit's handler returns []
PageTextsFail(p) ==
    /\ pagePc[p] = "images"
    /\ imgLeft[p] = 0
    /\ pagePc' = [pagePc EXCEPT ![p] = "done"]
    /\ formulas_en_pagina' = [formulas_en_pagina EXCEPT ![p] = <<>>]
    /\ future' = [future EXCEPT ![p] = "done"]
    /\ pageErr' = [pageErr EXCEPT ![p] = "page"]
    /\ UNCHANGED <<imgLeft, PageFrame, piVars, sharedVars>>

\* the pages whose future as_completed has yielded
Collected == { p \in PageIds : future[p] = "yielded" }

\* as_completed yields a finished future; its result extends the collection
PdfCollect(p) ==
    /\ pdfPc = "PagesDispatched"
    /\ future[p] = "done"
    /\ formulas_detectadas' = formulas_detectadas \o formulas_en_pagina[p]
    /\ processed_pages' = processed_pages + 1
    /\ future' = [future EXCEPT ![p] = "yielded"]
    /\ UNCHANGED <<docLen, pdfPc, pdfError, docOpen, formulas_validadas,
                   pagePc, imgLeft, formulas_en_pagina, pageErr, piVars,
                   sharedVars, PdfFrame>>

\* a validation that starts as soon as one future was yielded
PdfValidateEarly ==
    /\ pdfPc = "PagesDispatched"
    /\ Collected # {}
    /\ formulas_validadas' = validate_formulas(formulas_detectadas)
    /\ pdfPc' = "Validated"
    /\ UNCHANGED <<docLen, pdfError, docOpen, formulas_detectadas,
                   processed_pages, pageVars, piVars, sharedVars, PdfFrame>>

\* every future was yielded, the pool is shut down, the collection validated
PdfValidate ==
    /\ pdfPc = "PagesDispatched"
    /\ Collected = DocPages
    /\ formulas_validadas' = validate_formulas(formulas_detectadas)
    /\ pdfPc' = "Validated"
    /\ UNCHANGED <<docLen, pdfError, docOpen, formulas_detectadas,
                   processed_pages, pageVars, piVars, sharedVars, PdfFrame>>

\* process_pdf returns the validated list; the finally clause closes the document
PdfReturn ==
    /\ pdfPc = "Validated"
    /\ pdfPc' = "Complete"
    /\ docOpen' = FALSE
    /\ UNCHANGED <<docLen, pdfError, formulas_detectadas, processed_pages,
                   formulas_validadas, pageVars, piVars, sharedVars, PdfFrame>>

(***************************************************************************)
(* views.procesar_pdf around process_pdf: the returned entries are         *)
(* inserted one by one, then the response is sent                          *)
(***************************************************************************)
HandlerFrame == <<pdfVars, pageVars, piVars, sharedVars, fnVars, frameVars,
            retryVars>>

PdfDoc(problema) ==
    [handler |-> "pdf", formula |-> problema.formula, pagina |-> problema.pagina,
     confidence |-> problema.confidence, origen |-> problema.origen]

\* collection.insert_one succeeds for the next returned entry
PdfHandlerInsert ==
    /\ pdfPc = "Complete"
    /\ pdfStatus = 0
    /\ pdfInserted < Len(formulas_validadas)
    /\ collection' = Append(collection, PdfDoc(formulas_validadas[pdfInserted + 1]))
    /\ pdfInserted' = pdfInserted + 1
    /\ UNCHANGED <<reqPc, reqHandler, reqMethod, reqBody, responses, redisCache,
                   pipelineRuns, pdfStatus, HandlerFrame>>

\* collection.insert_one raises: the handler's except clause answers 500
PdfHandlerInsertFail ==
    /\ pdfPc = "Complete"
    /\ pdfStatus = 0
    /\ pdfInserted < Len(formulas_validadas)
    /\ pdfStatus' = 500
    /\ UNCHANGED <<reqPc, reqHandler, reqMethod, reqBody, responses, collection,
                   redisCache, pipelineRuns, pdfInserted, HandlerFrame>>

\* every entry is inserted: the success response
PdfHandlerOk ==
    /\ pdfPc = "Complete"
    /\ pdfStatus = 0
    /\ pdfInserted = Len(formulas_validadas)
    /\ pdfStatus' = 200
    /\ UNCHANGED <<reqPc, reqHandler, reqMethod, reqBody, responses, collection,
                   redisCache, pipelineRuns, pdfInserted, HandlerFrame>>

\* process_pdf raised: the handler's except clause answers 500
PdfHandlerError ==
    /\ pdfPc = "Failed"
    /\ pdfStatus = 0
    /\ pdfStatus' = 500
    /\ UNCHANGED <<reqPc, reqHandler, reqMethod, reqBody, responses, collection,
                   redisCache, pipelineRuns, pdfInserted, HandlerFrame>>

(***************************************************************************)
(* views.procesar_fotograma and views.procesar_imagen                      *)
(***************************************************************************)
ImageHandlers == {"fotograma", "imagen"}

Methods == {"OPTIONS", "POST", "GET"}

Bodies == {"imgA", "imgB", "undecodable"}

\* cv2.imdecode returns an image for the body
decodes(body) == body \in {"imgA", "imgB"}

ReqFrame == <<pdfVars, pageVars, pdfInserted, pdfStatus, fnVars, frameVars,
            retryVars>>

\* http.response.start with the status, then http.response.body
Sent(status) ==
    << [type |-> "http.response.start", status |-> status],
       [type |-> "http.response.body", status |-> status] >>

\* a request reaches one of the two handlers
ReqArrive(r) ==
    /\ reqPc[r] = "none"
    /\ \A q \in ReqIds : q < r => reqPc[q] # "none"
    /\ \E h \in ImageHandlers, m \in Methods, b \in Bodies :
          /\ reqHandler' = [reqHandler EXCEPT ![r] = h]
          /\ reqMethod' = [reqMethod EXCEPT ![r] = m]
          /\ reqBody' = [reqBody EXCEPT ![r] = b]
    /\ reqPc' = [reqPc EXCEPT ![r] = "recv"]
    /\ UNCHANGED <<responses, collection, redisCache, pipelineRuns, piVars,
                   sharedVars, ReqFrame>>

\* CORS preflight
ReqOptions(r) ==
    /\ reqPc[r] = "recv"
    /\ reqMethod[r] = "OPTIONS"
    /\ responses' = [responses EXCEPT ![r] = @ \o Sent(200)]
    /\ reqPc' = [reqPc EXCEPT ![r] = "done"]
    /\ UNCHANGED <<reqHandler, reqMethod, reqBody, collection, redisCache,
                   pipelineRuns, piVars, sharedVars, ReqFrame>>

\* procesar_fotograma only: a method other than POST
ReqMethodNotAllowed(r) ==
    /\ reqPc[r] = "recv"
    /\ reqHandler[r] = "fotograma"
    /\ reqMethod[r] \notin {"OPTIONS", "POST"}
    /\ responses' = [responses EXCEPT ![r] = @ \o Sent(405)]
    /\ reqPc' = [reqPc EXCEPT ![r] = "done"]
    /\ UNCHANGED <<reqHandler, reqMethod, reqBody, collection, redisCache,
                   pipelineRuns, piVars, sharedVars, ReqFrame>>

\* the handler goes on to read and decode the body
ReadsBody(r) ==
    /\ reqPc[r] = "recv"
    /\ reqMethod[r] # "OPTIONS"
    /\ reqHandler[r] = "fotograma" => reqMethod[r] = "POST"

\* the body does not decode: ValueError, answered by the except clause
ReqUndecodable(r) ==
    /\ ReadsBody(r)
    /\ ~decodes(reqBody[r])
    /\ responses' = [responses EXCEPT ![r] = @ \o Sent(500)]
    /\ reqPc' = [reqPc EXCEPT ![r] = "done"]
    /\ UNCHANGED <<reqHandler, reqMethod, reqBody, collection, redisCache,
                   pipelineRuns, piVars, sharedVars, ReqFrame>>

\* redis_client and cache are created when the module is loaded and no
\* handler reads or writes them: no body is ever found in the cache
cache_lookup(body) == FALSE

\* the body decodes: process_image is run in a thread
ReqRunPipeline(r) ==
    /\ ReadsBody(r)
    /\ decodes(reqBody[r])
    /\ ~cache_lookup(reqBody[r])
    /\ piPc' = [piPc EXCEPT ![<<"req", r>>] = "call"]
    /\ pipelineRuns' = [pipelineRuns EXCEPT ![reqBody[r]] = @ + 1]
    /\ reqPc' = [reqPc EXCEPT ![r] = "thread"]
    /\ UNCHANGED <<reqHandler, reqMethod, reqBody, responses, collection,
                   redisCache, piRegions, piWhole, piFormulas, piResult,
                   sharedVars, ReqFrame>>

Returned(r) == reqPc[r] = "thread" /\ AtReturn(<<"req", r>>)

\* process_image returned None: the no_formula response
ReqNoFormula(r) ==
    /\ Returned(r)
    /\ piResult[<<"req", r>>] = NoResult
    /\ responses' = [responses EXCEPT ![r] = @ \o Sent(404)]
    /\ reqPc' = [reqPc EXCEPT ![r] = "done"]
    /\ piPc' = [piPc EXCEPT ![<<"req", r>>] = "idle"]
    /\ piResult' = [piResult EXCEPT ![<<"req", r>>] = NoResult]
    /\ UNCHANGED <<reqHandler, reqMethod, reqBody, collection, redisCache,
                   pipelineRuns, piRegions, piWhole, piFormulas,
                   sharedVars, ReqFrame>>

FrameDoc(latex_formula) == [handler |-> "fotograma", formula |-> latex_formula]

\* procesar_fotograma: the detection (the list process_image returned) is
\* inserted and the success response sent
ReqFotogramaInsert(r) ==
    /\ Returned(r)
    /\ reqHandler[r] = "fotograma"
    /\ piResult[<<"req", r>>] # NoResult
    /\ collection' = Append(collection, FrameDoc(piResult[<<"req", r>>]))
    /\ responses' = [responses EXCEPT ![r] = @ \o Sent(200)]
    /\ reqPc' = [reqPc EXCEPT ![r] = "done"]
    /\ piPc' = [piPc EXCEPT ![<<"req", r>>] = "idle"]
    /\ piResult' = [piResult EXCEPT ![<<"req", r>>] = NoResult]
    /\ UNCHANGED <<reqHandler, reqMethod, reqBody, redisCache, pipelineRuns,
                   piRegions, piWhole, piFormulas, sharedVars, ReqFrame>>

\* procesar_fotograma: insert_one raises, answered by the except clause
ReqFotogramaInsertFail(r) ==
    /\ Returned(r)
    /\ reqHandler[r] = "fotograma"
    /\ piResult[<<"req", r>>] # NoResult
    /\ responses' = [responses EXCEPT ![r] = @ \o Sent(500)]
    /\ reqPc' = [reqPc EXCEPT ![r] = "done"]
    /\ piPc' = [piPc EXCEPT ![<<"req", r>>] = "idle"]
    /\ piResult' = [piResult EXCEPT ![<<"req", r>>] = NoResult]
    /\ UNCHANGED <<reqHandler, reqMethod, reqBody, collection, redisCache,
                   pipelineRuns, piRegions, piWhole, piFormulas,
                   sharedVars, ReqFrame>>

\* procesar_imagen: classify_problem is handed the list process_image
\* returned, re.search raises TypeError, answered by the except clause
ReqImagenClassifyFail(r) ==
    /\ Returned(r)
    /\ reqHandler[r] = "imagen"
    /\ piResult[<<"req", r>>] # NoResult
    /\ responses' = [responses EXCEPT ![r] = @ \o Sent(500)]
    /\ reqPc' = [reqPc EXCEPT ![r] = "done"]
    /\ piPc' = [piPc EXCEPT ![<<"req", r>>] = "idle"]
    /\ piResult' = [piResult EXCEPT ![<<"req", r>>] = NoResult]
    /\ UNCHANGED <<reqHandler, reqMethod, reqBody, collection, redisCache,
                   pipelineRuns, piRegions, piWhole, piFormulas,
                   sharedVars, ReqFrame>>

(***************************************************************************)
(* Specifications                                                          *)
(***************************************************************************)
vars == <<pdfVars, pageVars, piVars, sharedVars, httpVars, fnVars, frameVars,
          retryVars>>

InitHttpVars ==
    /\ reqPc = [r \in ReqIds |-> "none"]
    /\ reqHandler = [r \in ReqIds |-> "none"]
    /\ reqMethod = [r \in ReqIds |-> "none"]
    /\ reqBody = [r \in ReqIds |-> "none"]
    /\ responses = [r \in ReqIds |-> <<>>]
    /\ collection = <<>>
    /\ redisCache = {}
    /\ pipelineRuns = [b \in Bodies |-> 0]
    /\ pdfInserted = 0
    /\ pdfStatus = 0

\* no function is called on its own
InitFnVars ==
    /\ fnArg = <<>>
    /\ fnName = "none"
    /\ fnOut = None

\* last_frame before any frame was scored (None)
NoFrame == [pixels |-> <<>>, symbols |-> 0]

\* ImageProcessor.__init__: no frame scored yet
InitFrameVars ==
    /\ last_frame = NoFrame
    /\ last_result = None

\* no request is in the insert loop of procesar_imagen
InitRetryVars ==
    /\ attempt = [r \in ReqIds |-> 0]
    /\ retryPc = [r \in ReqIds |-> "idle"]
    /\ detection = [r \in ReqIds |-> <<>>]

\* one PDF is uploaded to procesar_pdf
Init ==
    /\ InitPdfVars /\ InitPageVars /\ InitPiVars /\ InitShared /\ InitHttpVars
    /\ InitFnVars /\ InitFrameVars /\ InitRetryVars

\* a PDF none of whose embedded images is a single non-zero pixel: no image
\* of it reaches process_image
Next ==
    \/ PdfReject
    \/ PdfDispatch
    \/ \E p \in PageIds : PageStart(p)
    \/ \E p \in PageIds : PageStartFail(p)
    \/ \E p \in PageIds : PageImageSkip(p)
    \/ \E p \in PageIds : PageImageRaise(p)
    \/ \E p \in PageIds : PageTexts(p)
    \/ \E p \in PageIds : PageTextsBlockRaise(p)
    \/ \E p \in PageIds : PageTextsFail(p)
    \/ \E p \in PageIds : PdfCollect(p)
    \/ PdfValidate
    \/ PdfReturn
    \/ PdfHandlerInsert
    \/ PdfHandlerInsertFail
    \/ PdfHandlerOk
    \/ PdfHandlerError

Spec == Init /\ [][Next]_vars

\* a PDF with any embedded images: a single-pixel image is handed to
\* process_image by its page unit
NextPdfImages ==
    \/ Next
    \/ \E p \in PageIds : PageImageCall(p)
    \/ \E p \in PageIds : PageImageDone(p)
    \/ \E t \in PageThreads : PiBegin(t)
    \/ \E t \in PageThreads : PiPreprocessOk(t)
    \/ \E t \in PageThreads : PiPreprocessFail(t)
    \/ \E t \in PageThreads : PiDetect(t)
    \/ \E t \in PageThreads : PiDetectFail(t)
    \/ \E t \in PageThreads : PiInferRegion(t)
    \/ \E t \in PageThreads : PiInferWhole(t)
    \/ \E t \in PageThreads : PiGenerated(t)
    \/ \E t \in PageThreads : PiGenerateFail(t)
    \/ \E t \in PageThreads : PiPrepareFail(t)
    \/ \E t \in PageThreads : PiFormulaCaught(t)
    \/ \E t \in PageThreads : PiReturn(t)

SpecPdfImages == Init /\ [][NextPdfImages]_vars

\* image and frame requests arrive at the two image handlers; no PDF
InitHttp ==
    /\ InitPdfVars /\ docLen = 0
    /\ InitPageVars /\ InitPiVars /\ InitShared /\ InitHttpVars
    /\ InitFnVars /\ InitFrameVars /\ InitRetryVars

NextHttp ==
    \/ \E r \in ReqIds : ReqArrive(r)
    \/ \E r \in ReqIds : ReqOptions(r)
    \/ \E r \in ReqIds : ReqMethodNotAllowed(r)
    \/ \E r \in ReqIds : ReqUndecodable(r)
    \/ \E r \in ReqIds : ReqRunPipeline(r)
    \/ \E r \in ReqIds : ReqNoFormula(r)
    \/ \E r \in ReqIds : ReqFotogramaInsert(r)
    \/ \E r \in ReqIds : ReqFotogramaInsertFail(r)
    \/ \E r \in ReqIds : ReqImagenClassifyFail(r)
    \/ \E t \in ReqThreads : PiBegin(t)
    \/ \E t \in ReqThreads : PiPreprocessOk(t)
    \/ \E t \in ReqThreads : PiPreprocessFail(t)
    \/ \E t \in ReqThreads : PiDetect(t)
    \/ \E t \in ReqThreads : PiDetectFail(t)
    \/ \E t \in ReqThreads : PiInferRegion(t)
    \/ \E t \in ReqThreads : PiInferWhole(t)
    \/ \E t \in ReqThreads : PiGenerated(t)
    \/ \E t \in ReqThreads : PiGenerateFail(t)
    \/ \E t \in ReqThreads : PiPrepareFail(t)
    \/ \E t \in ReqThreads : PiFormulaCaught(t)
    \/ \E t \in ReqThreads : PiReturn(t)

SpecHttp == InitHttp /\ [][NextHttp]_vars


(***************************************************************************)
(* Properties of process_pdf                                               *)
(***************************************************************************)
Finished == pdfPc \in {"Validated", "Complete"}

\* C1: process_pdf on a document with 0 pages or more than 50 pages fails
\* with the page-count error before any page unit is submitted: no page of
\* it is ever queued, started or collected, and no formula is returned
C1_RejectedBeforeDispatch ==
    (docLen = 0 \/ docLen > 50) =>
        /\ pdfPc \in {"Submitted", "Failed"}
        /\ pdfPc = "Failed" => pdfError = "page-count" /\ ~docOpen
        /\ \A p \in PageIds : pagePc[p] = "none" /\ future[p] = "none"
        /\ processed_pages = 0
        /\ formulas_detectadas = <<>>
        /\ formulas_validadas = <<>>
        /\ pdfStatus \in {0, 500}

\* a 51-page document has been rejected
C1_Witness ==
    /\ docLen = 51
    /\ pdfPc = "Failed"
    /\ pdfError = "page-count"
    /\ pdfStatus = 500

\* C2: the list process_pdf returns, and what procesar_pdf then inserts of
\* it, holds no two entries with the same formula text, whatever the number
\* of pages, the order the page units complete in and the repeats found
C2_NoDuplicateText ==
    /\ \A i, j \in 1..Len(formulas_validadas) :
          formulas_validadas[i].formula = formulas_validadas[j].formula => i = j
    /\ \A i, j \in 1..Len(collection) :
          /\ collection[i].handler = "pdf"
          /\ collection[j].handler = "pdf"
          /\ collection[i].formula = collection[j].formula
          => i = j

\* two pages held the same qualifying text, and the run has returned and
\* its entries are inserted
C2_Witness ==
    /\ pdfStatus = 200
    /\ \E i, j \in 1..Len(formulas_detectadas) :
          /\ i < j
          /\ formulas_detectadas[i].formula = formulas_detectadas[j].formula
          /\ formulas_detectadas[i].pagina # formulas_detectadas[j].pagina
          /\ Qualifies(formulas_detectadas[i])
    /\ Len(collection) = 1

\* the lowest page on which the text of an entry was found
FirstPageOf(f) ==
    CHOOSE p \in PageIds :
        /\ \E i \in 1..Len(formulas_detectadas) :
              formulas_detectadas[i].formula = f /\ formulas_detectadas[i].pagina = p
        /\ \A i \in 1..Len(formulas_detectadas) :
              formulas_detectadas[i].formula = f => formulas_detectadas[i].pagina >= p

\* C3: of a text found on several pages the entry kept is the one of the
\* lowest page, for every order the page units complete in
C3_KeepsLowestPage ==
    Finished =>
        \A i \in 1..Len(formulas_validadas) :
            formulas_validadas[i].pagina = FirstPageOf(formulas_validadas[i].formula)

\* C4: the returned list is ordered by non-decreasing page number, for
\* every order the page units complete in
C4_OrderedByPage ==
    Finished =>
        \A i, j \in 1..Len(formulas_validadas) :
            i < j => formulas_validadas[i].pagina <= formulas_validadas[j].pagina

\* C5: the returned entries are exactly the collected candidates with
\* confidence >= 90, balanced brackets and a valid text, one per distinct
\* text: none below 90, unbalanced or invalid is returned, and no
\* qualifying text is lost
C5_ExactlyQualifying ==
    Finished =>
        /\ \A i \in 1..Len(formulas_validadas) :
              /\ formulas_validadas[i].confidence >= 90
              /\ check_balanced_structure(formulas_validadas[i].formula)
              /\ is_valid_latex(formulas_validadas[i].formula)
              /\ \E k \in 1..Len(formulas_detectadas) :
                    formulas_detectadas[k] = formulas_validadas[i]
        /\ \A k \in 1..Len(formulas_detectadas) :
              (/\ formulas_detectadas[k].confidence >= 90
               /\ check_balanced_structure(formulas_detectadas[k].formula)
               /\ is_valid_latex(formulas_detectadas[k].formula))
              => \E i \in 1..Len(formulas_validadas) :
                    formulas_validadas[i].formula = formulas_detectadas[k].formula
        /\ Cardinality({ formulas_validadas[i].formula : i \in 1..Len(formulas_validadas) })
              = Len(formulas_validadas)

\* a run has returned one entry out of two candidates, the other one
\* confident enough but unbalanced
C5_Witness ==
    /\ pdfPc = "Complete"
    /\ Len(formulas_validadas) = 1
    /\ \E k \in 1..Len(formulas_detectadas) :
          /\ formulas_detectadas[k].confidence >= 90
          /\ ~check_balanced_structure(formulas_detectadas[k].formula)
    /\ \E k \in 1..Len(formulas_detectadas) :
          formulas_detectadas[k] = formulas_validadas[1]


\* the entries of the collection that carry page p
FromPage(fs, p) == SelectSeq(fs, LAMBDA fd : fd.pagina = p)

\* C7 as stated: a page on which the unit, an image or a text block raised
\* contributes nothing to what process_pdf collects
C7_FailingPageContributesNothing ==
    Finished =>
        \A p \in DocPages :
            pageErr[p] # "none" => FromPage(formulas_detectadas, p) = <<>>

\* C7: when the unit of a page fails as a whole the page contributes nothing,
\* when only an image or a text block of it raises the page contributes what
\* its other items gave; the run is aborted for the page count alone, is
\* never stuck, and returns every qualifying text of the pages that did not
\* fail
C7_PageFailureContained ==
    /\ pdfPc = "Failed" => (docLen = 0 \/ docLen > 50)
    /\ pdfPc = "PagesDispatched" =>
          \/ \E p \in DocPages : CanStart(p)
          \/ \E p \in DocPages : pagePc[p] \in {"images", "image_call"}
          \/ \E p \in DocPages : future[p] = "done"
          \/ Collected = DocPages
    /\ Finished =>
          \A p \in DocPages :
              /\ pageErr[p] = "page" => FromPage(formulas_detectadas, p) = <<>>
              /\ pageErr[p] # "page" =>
                    /\ FromPage(formulas_detectadas, p) = formulas_en_pagina[p]
                    /\ \A k \in 1..Len(formulas_en_pagina[p]) :
                          Qualifies(formulas_en_pagina[p][k]) =>
                              \E i \in 1..Len(formulas_validadas) :
                                  formulas_validadas[i].formula
                                      = formulas_en_pagina[p][k].formula

\* the unit of one page failed, a text block of the other raised, and the
\* run returned the formula of that other page
C7_Witness ==
    /\ pdfPc = "Complete"
    /\ \E p, q \in DocPages :
          /\ pageErr[p] = "page"
          /\ pageErr[q] = "item"
          /\ Len(formulas_validadas) = 1
          /\ formulas_validadas[1].pagina = q

(***************************************************************************)
(* Properties of the shared ImageProcessor, the model and the handlers     *)
(***************************************************************************)
\* the texts a stored document carries
InsertedTexts(doc) ==
    IF doc.handler = "pdf" THEN { doc.formula }
    ELSE { doc.formula[i].latex : i \in 1..Len(doc.formula) }

\* C6: whatever handler writes it, a formula is inserted only if its text
\* has balanced brackets and passes is_valid_latex
C6_InsertedOnlyIfBalancedAndValid ==
    \A i \in 1..Len(collection) :
        \A f \in InsertedTexts(collection[i]) :
            check_balanced_structure(f) /\ is_valid_latex(f)

\* the process_image call of thread t is in progress
InProcessImage(t) == piPc[t] \in {"pre", "detect", "loop", "gen", "caught"}

\* C8: no step of one page unit deletes a debug image that another unit,
\* still inside its process_image call, has written
C8_UnitsShareNoMutableState ==
    [][\A f \in tempDir :
          (f \notin tempDir' /\ InProcessImage(f.by)) => piPc'[f.by] # piPc[f.by]]_vars

\* C9: at most one thread is inside model.generate at any time
C9_InferenceSerialized == Cardinality(inferring) <= 1

\* request q has been answered after process_image ran on its body
RanPipeline(q) ==
    /\ reqPc[q] = "done"
    /\ decodes(reqBody[q])
    /\ reqMethod[q] # "OPTIONS"
    /\ reqHandler[q] = "fotograma" => reqMethod[q] = "POST"

\* C10: a request whose body an earlier, answered request already carried
\* does not start the pipeline
C10_SecondAnsweredFromCache ==
    [][\A r \in ReqIds :
          (reqPc[r] = "recv" /\ reqPc'[r] = "thread") =>
              ~ \E q \in ReqIds \ {r} : RanPipeline(q) /\ reqBody[q] = reqBody[r]]_vars


(***************************************************************************)
(* Properties of cleanup and of the responses                              *)
(***************************************************************************)
\* C11: once a request has been answered, no debug image that its run wrote
\* is left in the temp directory, on the success path and on failure paths
C11_ArtifactsRemovedAfterRun ==
    \A r \in ReqIds :
        reqPc[r] = "done" => \A f \in tempDir : f.by # <<"req", r>>

\* C12: when process_pdf has returned its detections, a failing insert does
\* not turn the answer into an error: the status is the success status
C12_StoreFailureStillSuccess == pdfPc = "Complete" => pdfStatus \in {0, 200}

\* C13: a request whose process_image call ended at a return that follows an
\* internal failure (preprocess gave None, or the except clause) is not
\* answered with the 404 no_formula response but with 500
C13_FailureIsNotNoFormula ==
    [][\A r \in ReqIds :
          (/\ reqPc[r] = "thread"
           /\ piPc[<<"req", r>>] \in {"ret_pre", "ret_exc"}
           /\ reqPc'[r] = "done")
          => responses'[r] = responses[r] \o Sent(500)]_vars

\* C14: an input error is answered with a 4xx status, never 5xx: here the
\* PDF whose page count is 0 or above 50
C14_InputErrorsAre4xx ==
    (pdfError = "page-count" /\ pdfStatus # 0) => pdfStatus \in 400..499


(***************************************************************************)
(* The text functions called on their own, each on one text of a bounded   *)
(* set                                                                     *)
(***************************************************************************)
progVars == <<pdfVars, pageVars, piVars, sharedVars, httpVars, frameVars,
              retryVars>>

\* no PDF and no request: the program's state stays as constructed
InitProgIdle ==
    /\ InitPdfVars /\ docLen = 0
    /\ InitPageVars /\ InitPiVars /\ InitShared /\ InitHttpVars
    /\ InitFrameVars /\ InitRetryVars

RECURSIVE SeqsUpTo(_, _)
\* the sequences of at most n elements of S
SeqsUpTo(S, n) ==
    IF n = 0 THEN { <<>> }
    ELSE LET shorter == SeqsUpTo(S, n - 1)
         IN  shorter \cup { Append(q, c) : q \in { x \in shorter : Len(x) = n - 1 }, c \in S }

\* function name is called on fnArg and returns out
Returns(name, out) ==
    /\ fnName = "none"
    /\ fnName' = name
    /\ fnOut' = out
    /\ UNCHANGED <<fnArg, progVars>>

\* length of the texts handed to the bracket checks
MaxBracketLen == 4

BracketChars == Openers \cup Closers \cup {"a"}

BracketInputs == SeqsUpTo(BracketChars, MaxBracketLen)

InitBalance ==
    /\ InitProgIdle
    /\ fnArg \in BracketInputs
    /\ fnName = "none"
    /\ fnOut = None

CallCheckBalancedStructure ==
    Returns("_check_balanced_structure", check_balanced_structure(fnArg))

CallCheckSymbolBalance ==
    Returns("_check_symbol_balance", check_symbol_balance(fnArg))

NextBalance ==
    \/ CallCheckBalancedStructure
    \/ CallCheckSymbolBalance

SpecBalance == InitBalance /\ [][NextBalance]_vars

\* how often character c occurs in the first n characters of s
Occurrences(s, c, n) == Cardinality({ i \in 1..n : s[i] = c })

RECURSIVE Reduce(_)
\* s without its other characters and, repeatedly, without each adjacent
\* pair of an opener and its closer
Reduce(s) ==
    LET b == SelectSeq(s, LAMBDA c : c \in Openers \cup Closers)
        P == { i \in 1..(Len(b) - 1) : b[i] \in Openers /\ b[i + 1] = CloserOf(b[i]) }
    IN  IF P = {} THEN b
        ELSE LET i == CHOOSE k \in P : \A m \in P : k <= m
             IN  Reduce(SubSeq(b, 1, i - 1) \o SubSeq(b, i + 2, Len(b)))

\* C15: a text the bracket checks accept holds each opener as often as its
\* closer and in no prefix more closers of a kind than openers of it; the
\* checks accept exactly the properly nested texts, so a mismatched,
\* interleaved or unclosed bracket is rejected
C15_BalanceCheckExact ==
    fnName \in {"_check_balanced_structure", "_check_symbol_balance"} =>
        /\ fnOut = (Reduce(fnArg) = <<>>)
        /\ fnOut = TRUE =>
              \A o \in Openers :
                  /\ Occurrences(fnArg, o, Len(fnArg))
                        = Occurrences(fnArg, CloserOf(o), Len(fnArg))
                  /\ \A n \in 0..Len(fnArg) :
                        Occurrences(fnArg, CloserOf(o), n) <= Occurrences(fnArg, o, n)

\* the nested text ([]) was accepted
C15_Witness ==
    /\ fnName = "_check_balanced_structure"
    /\ fnArg = <<"(", "[", "]", ")">>
    /\ fnOut = TRUE


(***************************************************************************)
(* classify_problem called on its own                                      *)
(***************************************************************************)
\* pieces of the texts handed to classify_problem
MaxClassifyTokens == 3

ClassifyTokens ==
    { Cmd(cInt), Cmd(cLim), DerivativeBy("x"), DerivativeBy("w"), Cmd(cSum),
      <<"=">>, Cmd(cSqrt), Cmd(cVec), <<"x">> }

RECURSIVE Concat(_)
Concat(pieces) == IF pieces = <<>> THEN <<>> ELSE Head(pieces) \o Concat(Tail(pieces))

ClassifyInputs == { Concat(q) : q \in SeqsUpTo(ClassifyTokens, MaxClassifyTokens) }

InitClassify ==
    /\ InitProgIdle
    /\ fnArg \in ClassifyInputs
    /\ fnName = "none"
    /\ fnOut = None

CallClassifyProblem == Returns("classify_problem", classify_problem(fnArg))

NextClassify == CallClassifyProblem

SpecClassify == InitClassify /\ [][NextClassify]_vars

HasDerivativeAndEquals ==
    /\ fnName = "classify_problem"
    /\ Contains(fnArg, DerivativeBy("x"))
    /\ Contains(fnArg, <<"=">>)

\* C16 as stated: a formula that contains \frac{d}{dx} and = is classified
\* Derivada
C16_DerivativeWithEquals == HasDerivativeAndEquals => fnOut = "Derivada"

\* C16: the label is that of the first entry of the table, in its order,
\* whose pattern is found, and the default exactly when none is found; with
\* \int and = it is Integral; with \frac{d}{dx} and = it is never Ecuacion,
\* and it is Derivada unless \int or \lim is found too
C16_FirstMatchingLabel ==
    fnName = "classify_problem" =>
        /\ (fnOut = "Expresion algebraica")
              = (\A k \in 1..Len(Types) : ~Searches(Types[k], fnArg))
        /\ fnOut # "Expresion algebraica" =>
              \E k \in 1..Len(Types) :
                  /\ Types[k].label = fnOut
                  /\ Searches(Types[k], fnArg)
                  /\ \A j \in 1..(k - 1) : ~Searches(Types[j], fnArg)
        /\ (Contains(fnArg, Cmd(cInt)) /\ Contains(fnArg, <<"=">>)) => fnOut = "Integral"
        /\ HasDerivativeAndEquals =>
              /\ fnOut # "Ecuacion"
              /\ (~Contains(fnArg, Cmd(cInt)) /\ ~Contains(fnArg, Cmd(cLim)))
                    => fnOut = "Derivada"

\* a formula with \frac{d}{dx}, = and neither \int nor \lim was classified
C16_Witness ==
    /\ HasDerivativeAndEquals
    /\ ~Contains(fnArg, Cmd(cInt))
    /\ ~Contains(fnArg, Cmd(cLim))
    /\ fnOut = "Derivada"


(***************************************************************************)
(* _calculate_confidence called on its own, on a text and on the text with *)
(* a construct inserted                                                    *)
(***************************************************************************)
\* pieces of the texts handed to _calculate_confidence
MaxConfTokens == 3

ConfTokens ==
    { Cmd(cFrac), Cmd(cSqrt), Cmd2(cFrac), Cmd2(cSqrt),
      <<"{", "1", "}">>, <<"{">>, <<"a">> }

ConfInputs == { Concat(q) : q \in SeqsUpTo(ConfTokens, MaxConfTokens) }

\* \sqrt{} as LaTeX spells it and as math_symbols spells it
InsertedConstructs == { Cmd(cSqrt) \o <<"{", "}">>, Cmd2(cSqrt) \o <<"{", "}">> }

\* text c put after the first i characters of f
InsertAt(f, i, c) == SubSeq(f, 1, i) \o c \o SubSeq(f, i + 1, Len(f))

InitConfidence ==
    /\ InitProgIdle
    /\ fnArg \in ConfInputs
    /\ fnName = "none"
    /\ fnOut = None

CallCalculateConfidence ==
    Returns("_calculate_confidence", calculate_confidence(fnArg))

\* the score of the text and the score of the text with a construct inserted
CallConfidenceOfBoth ==
    \E i \in 0..Len(fnArg), c \in InsertedConstructs :
        Returns("_calculate_confidence twice",
                [at |-> i, construct |-> c,
                 before |-> calculate_confidence(fnArg),
                 after |-> calculate_confidence(InsertAt(fnArg, i, c))])

NextConfidence ==
    \/ CallCalculateConfidence
    \/ CallConfidenceOfBoth

SpecConfidence == InitConfidence /\ [][NextConfidence]_vars

\* the LaTeX commands \frac, \sum, \int, \sqrt
Constructs == { Cmd(cFrac), Cmd(cSum), Cmd(cInt), Cmd(cSqrt) }

\* C17: the score is min(100, 20 if longer than 10 + 15 for each of the
\* commands \frac, \sum, \int, \sqrt that occurs + 20 if balanced + 30 if
\* valid)
C17_ConfidenceFormula ==
    fnName = "_calculate_confidence" =>
        fnOut = Min(100,
                    (IF Len(fnArg) > 10 THEN 20 ELSE 0)
                    + 15 * Cardinality({ m \in Constructs : Contains(fnArg, m) })
                    + (IF check_balanced_structure(fnArg) THEN 20 ELSE 0)
                    + (IF is_valid_latex(fnArg) THEN 30 ELSE 0))

ValidAndBalanced == is_valid_latex(fnArg) /\ check_balanced_structure(fnArg)

\* C18 as stated: inserting a construct at any position of a valid,
\* balanced text does not lower the score
C18_MonotoneAtEveryPosition ==
    (fnName = "_calculate_confidence twice" /\ ValidAndBalanced) =>
        fnOut.after >= fnOut.before

\* position i lies inside an occurrence of one of the counted texts
InsideCounted(f, i) ==
    \E m \in MathSymbols : \E a \in 1..(Len(f) - Len(m) + 1) :
        /\ SubSeq(f, a, a + Len(m) - 1) = m
        /\ a <= i
        /\ i < a + Len(m) - 1

\* C18: inserting a construct into a valid, balanced text at a position
\* that is not inside an occurrence of a counted text does not lower the
\* score
C18_MonotoneOutsideCounted ==
    (/\ fnName = "_calculate_confidence twice"
     /\ ValidAndBalanced
     /\ ~InsideCounted(fnArg, fnOut.at))
    => fnOut.after >= fnOut.before

\* \sqrt{} was put between two counted texts of a valid, balanced text and
\* the score did not fall
C18_Witness ==
    /\ fnName = "_calculate_confidence twice"
    /\ ValidAndBalanced
    /\ Contains(fnArg, Cmd2(cFrac))
    /\ fnOut.at > 0
    /\ fnOut.at < Len(fnArg)
    /\ ~InsideCounted(fnArg, fnOut.at)
    /\ fnOut.after >= fnOut.before

(***************************************************************************)
(* re.sub for the patterns of convertir_a_latex and convert_to_texjs        *)
(*                                                                         *)
(* A pattern is a sequence of items: a literal character, a capturing      *)
(* group of one or more characters of a class (greedy, backtracking), a    *)
(* capturing group of one character of a class, or the lazy group (.*?).   *)
(* A template is a sequence of literal texts and group references.         *)
(***************************************************************************)
\* the character classes: \d, \w, [^{}] and [^{] (ASCII texts)
InClass(class, ch) ==
    CASE class = "d" -> ch \in Digits
      [] class = "w" -> ch \in Letters \cup Digits \cup {"_"}
      [] class = "nobrace" -> ch \notin {"{", "}"}
      [] class = "noopen" -> ch # "{"
      [] OTHER -> ch # "\n"

RECURSIVE Run(_, _, _)
\* how many characters of the class stand in a row from position i
Run(s, i, class) ==
    IF i <= Len(s) /\ InClass(class, s[i]) THEN 1 + Run(s, i + 1, class) ELSE 0

NoMatch == [ok |-> FALSE, end |-> 0, groups |-> <<>>]

RECURSIVE MatchAt(_, _, _, _), TryRuns(_, _, _, _, _, _)
\* the items k.. of pat matched at position i of s: the end and the groups
MatchAt(pat, k, s, i) ==
    IF k > Len(pat) THEN [ok |-> TRUE, end |-> i, groups |-> <<>>]
    ELSE CASE pat[k].k = "lit" ->
                IF i <= Len(s) /\ s[i] = pat[k].c
                THEN MatchAt(pat, k + 1, s, i + 1) ELSE NoMatch
           [] pat[k].k = "plus" -> TryRuns(pat, k, s, i, Run(s, i, pat[k].c), -1)
           [] pat[k].k = "one" ->
                IF Run(s, i, pat[k].c) >= 1 THEN TryRuns(pat, k, s, i, 1, -1) ELSE NoMatch
           [] OTHER -> TryRuns(pat, k, s, i, 0, 1)

\* the group of item k takes n characters; greedy groups shrink, lazy ones grow
TryRuns(pat, k, s, i, n, step) ==
    IF n < (IF step = 1 THEN 0 ELSE 1) \/ i + n - 1 > Len(s)
       \/ (step = 1 /\ n > Run(s, i, pat[k].c))
    THEN NoMatch
    ELSE LET rest == MatchAt(pat, k + 1, s, i + n)
         IN  IF rest.ok
             THEN [ok |-> TRUE, end |-> rest.end,
                   groups |-> <<SubSeq(s, i, i + n - 1)>> \o rest.groups]
             ELSE TryRuns(pat, k, s, i, n + step, step)

RECURSIVE Expand(_, _)
\* the replacement text of a template for the groups of one match
Expand(tmpl, groups) ==
    IF tmpl = <<>> THEN <<>>
    ELSE (IF Head(tmpl).g = 0 THEN Head(tmpl).t ELSE groups[Head(tmpl).g])
         \o Expand(Tail(tmpl), groups)

RECURSIVE SubFrom(_, _, _, _)
\* re.sub(pat, tmpl, s) from position i: leftmost matches, not overlapping
SubFrom(pat, tmpl, s, i) ==
    IF i > Len(s) THEN <<>>
    ELSE LET m == MatchAt(pat, 1, s, i)
         IN  IF m.ok /\ m.end > i
             THEN Expand(tmpl, m.groups) \o SubFrom(pat, tmpl, s, m.end)
             ELSE <<s[i]>> \o SubFrom(pat, tmpl, s, i + 1)

re_sub(pat, tmpl, s) == SubFrom(pat, tmpl, s, 1)

RECURSIVE ReplaceFrom(_, _, _, _)
\* str.replace(old, new) from position i: every occurrence, left to right
ReplaceFrom(s, i, old, new) ==
    IF i > Len(s) THEN <<>>
    ELSE IF StartsAt(s, i, old) THEN new \o ReplaceFrom(s, i + Len(old), old, new)
    ELSE <<s[i]>> \o ReplaceFrom(s, i + 1, old, new)

replace(s, old, new) == ReplaceFrom(s, 1, old, new)

(***************************************************************************)
(* LatexProcessor.convert_to_texjs                                         *)
(***************************************************************************)
\* the letters re accepts after a backslash in a replacement template
TemplateEscapes == {"a", "b", "f", "g", "n", "r", "t", "v"}

\* re.sub raises "bad escape" for a template with a backslash and another letter
BadTemplate(new) ==
    \E i \in 1..(Len(new) - 1) :
        new[i] = BS /\ new[i + 1] \in Letters \ TemplateEscapes

\* texjs_conversions in the order of the dictionary: the text each pattern
\* matches and the replacement template
texjs_conversions == <<
    [old |-> <<"\\","l","e","f","t">>,
     new |-> <<>>],
    [old |-> <<"\\","r","i","g","h","t">>,
     new |-> <<>>],
    [old |-> <<"\\","m","a","t","h","r","m","{","d","}">>,
     new |-> <<"d">>],
    [old |-> <<"\\","m","a","t","h","b","b","{","R","}">>,
     new |-> <<"\\","R">>],
    [old |-> <<"\\","m","a","t","h","b","b","{","N","}">>,
     new |-> <<"\\","N">>],
    [old |-> <<"\\","m","a","t","h","b","b","{","Z","}">>,
     new |-> <<"\\","Z">>],
    [old |-> <<"\\","b","e","g","i","n","{","a","r","r","a","y","}">>,
     new |-> <<"\\","b","e","g","i","n","{","m","a","t","r","i","x","}">>],
    [old |-> <<"\\","e","n","d","{","a","r","r","a","y","}">>,
     new |-> <<"\\","e","n","d","{","m","a","t","r","i","x","}">>],
    [old |-> <<"\\","t","e","x","t">>,
     new |-> <<"\\","m","a","t","h","r","m">>],
    [old |-> <<"\\","o","p","e","r","a","t","o","r","n","a","m","e">>,
     new |-> <<"\\","m","a","t","h","r","m">>],
    [old |-> <<"\\","d","i","s","p","l","a","y","s","t","y","l","e">>,
     new |-> <<>>]
>>

RECURSIVE TexjsLoop(_, _)
\* the loop over texjs_conversions from entry i: the text, or None when
\* re.sub raises
TexjsLoop(result, i) ==
    IF i > Len(texjs_conversions) THEN result
    ELSE IF BadTemplate(texjs_conversions[i].new) THEN None
    ELSE IF result = <<>> THEN TexjsLoop(<<>>, i + 1)
    ELSE TexjsLoop(replace(result, texjs_conversions[i].old, texjs_conversions[i].new),
                   i + 1)

\* r'\\frac{([^{}]+)}{([^{}]+)}' rewritten to r'\\frac{\1}{\2}'
FracPattern == <<[k |-> "lit", c |-> "\\"], [k |-> "lit", c |-> "f"], [k |-> "lit", c |-> "r"], [k |-> "lit", c |-> "a"], [k |-> "lit", c |-> "c"], [k |-> "lit", c |-> "{"], [k |-> "plus", c |-> "nobrace"], [k |-> "lit", c |-> "}"], [k |-> "lit", c |-> "{"], [k |-> "plus", c |-> "nobrace"], [k |-> "lit", c |-> "}"]>>
FracTemplate == <<[g |-> 0, t |-> <<"\\","f","r","a","c","{">>], [g |-> 1, t |-> <<>>], [g |-> 0, t |-> <<"}","{">>], [g |-> 2, t |-> <<>>], [g |-> 0, t |-> <<"}">>]>>
\* r'_([^{])' and r'\^([^{])': the templates r'_{\\1}' and r'^{\\1}' spell a
\* backslash and the digit 1, not the group
SubscriptPattern == <<[k |-> "lit", c |-> "_"], [k |-> "one", c |-> "noopen"]>>
SubscriptTemplate == <<[g |-> 0, t |-> <<"_","{","\\","1","}">>]>>
SuperscriptPattern == <<[k |-> "lit", c |-> "^"], [k |-> "one", c |-> "noopen"]>>
SuperscriptTemplate == <<[g |-> 0, t |-> <<"^","{","\\","1","}">>]>>

\* the substitutions after the loop: fractions, indices, spacing
TexjsAdjust(result) ==
    LET fracs == re_sub(FracPattern, FracTemplate, result)
        subs == re_sub(SubscriptPattern, SubscriptTemplate, fracs)
        sups == re_sub(SuperscriptPattern, SuperscriptTemplate, subs)
        thin == replace(sups, <<BS, ",">>, <<" ">>)
        thick == replace(thin, <<BS, ";">>, <<" ">>)
        medium == replace(thick, <<BS, ":">>, <<" ">>)
    IN  replace(medium, <<BS, "!">>, <<>>)

\* the except branch returns the text as it was handed in
convert_to_texjs(latex_text) ==
    LET looped == TexjsLoop(latex_text, 1)
    IN  IF looped = None THEN latex_text ELSE TexjsAdjust(looped)

(***************************************************************************)
(* FormulaDetector.convertir_a_latex                                       *)
(***************************************************************************)
\* conversiones in the order of the dictionary
conversiones == <<
    [original |-> <<"+">>, latex |-> <<"+">>],
    [original |-> <<"-">>, latex |-> <<"-">>],
    [original |-> <<"*">>, latex |-> <<"\\","t","i","m","e","s">>],
    [original |-> <<"/">>, latex |-> <<"\\","d","i","v">>],
    [original |-> <<"s","q","r","t">>, latex |-> <<"\\","s","q","r","t">>],
    [original |-> <<"s","i","n">>, latex |-> <<"\\","s","i","n">>],
    [original |-> <<"c","o","s">>, latex |-> <<"\\","c","o","s">>],
    [original |-> <<"t","a","n">>, latex |-> <<"\\","t","a","n">>],
    [original |-> <<"l","o","g">>, latex |-> <<"\\","l","o","g">>],
    [original |-> <<"l","n">>, latex |-> <<"\\","l","n">>],
    [original |-> <<"l","i","m">>, latex |-> <<"\\","l","i","m">>],
    [original |-> <<"p","i">>, latex |-> <<"\\","p","i">>],
    [original |-> <<"i","n","f">>, latex |-> <<"\\","i","n","f","t","y">>],
    [original |-> <<"a","l","p","h","a">>, latex |-> <<"\\","a","l","p","h","a">>],
    [original |-> <<"b","e","t","a">>, latex |-> <<"\\","b","e","t","a">>],
    [original |-> <<"g","a","m","m","a">>, latex |-> <<"\\","g","a","m","m","a">>],
    [original |-> <<"d","e","l","t","a">>, latex |-> <<"\\","d","e","l","t","a">>],
    [original |-> <<"s","u","m">>, latex |-> <<"\\","s","u","m">>],
    [original |-> <<"i","n","t">>, latex |-> <<"\\","i","n","t">>],
    [original |-> <<"p","r","o","d">>, latex |-> <<"\\","p","r","o","d">>],
    [original |-> <<">","=">>, latex |-> <<"\\","g","e","q">>],
    [original |-> <<"<","=">>, latex |-> <<"\\","l","e","q">>],
    [original |-> <<"!","=">>, latex |-> <<"\\","n","e","q">>],
    [original |-> <<"~","=">>, latex |-> <<"\\","a","p","p","r","o","x">>],
    [original |-> <<"p","a","r","t","i","a","l">>, latex |-> <<"\\","p","a","r","t","i","a","l">>],
    [original |-> <<"n","a","b","l","a">>, latex |-> <<"\\","n","a","b","l","a">>],
    [original |-> <<"g","r","a","d">>, latex |-> <<"\\","n","a","b","l","a">>],
    [original |-> <<"d","i","v">>, latex |-> <<"\\","n","a","b","l","a"," ","\\","c","d","o","t">>],
    [original |-> <<"c","u","r","l">>, latex |-> <<"\\","n","a","b","l","a"," ","\\","t","i","m","e","s">>]
>>

\* patrones in the order of the list
patrones == <<
    \* (\d+)/(\d+)
    [patron |-> <<[k |-> "plus", c |-> "d"], [k |-> "lit", c |-> "/"], [k |-> "plus", c |-> "d"]>>,
     reemplazo |-> <<[g |-> 0, t |-> <<"\\","f","r","a","c","{">>], [g |-> 1, t |-> <<>>], [g |-> 0, t |-> <<"}","{">>], [g |-> 2, t |-> <<>>], [g |-> 0, t |-> <<"}">>]>>],
    \* (\w+)\^(\w+)
    [patron |-> <<[k |-> "plus", c |-> "w"], [k |-> "lit", c |-> "^"], [k |-> "plus", c |-> "w"]>>,
     reemplazo |-> <<[g |-> 0, t |-> <<"{">>], [g |-> 1, t |-> <<>>], [g |-> 0, t |-> <<"}","^","{">>], [g |-> 2, t |-> <<>>], [g |-> 0, t |-> <<"}">>]>>],
    \* (\w+)_(\w+)
    [patron |-> <<[k |-> "plus", c |-> "w"], [k |-> "lit", c |-> "_"], [k |-> "plus", c |-> "w"]>>,
     reemplazo |-> <<[g |-> 0, t |-> <<"{">>], [g |-> 1, t |-> <<>>], [g |-> 0, t |-> <<"}","_","{">>], [g |-> 2, t |-> <<>>], [g |-> 0, t |-> <<"}">>]>>],
    \* sqrt\((.*?)\)
    [patron |-> <<[k |-> "lit", c |-> "s"], [k |-> "lit", c |-> "q"], [k |-> "lit", c |-> "r"], [k |-> "lit", c |-> "t"], [k |-> "lit", c |-> "("], [k |-> "lazy", c |-> "any"], [k |-> "lit", c |-> ")"]>>,
     reemplazo |-> <<[g |-> 0, t |-> <<"\\","s","q","r","t","{">>], [g |-> 1, t |-> <<>>], [g |-> 0, t |-> <<"}">>]>>],
    \* sin\((.*?)\)
    [patron |-> <<[k |-> "lit", c |-> "s"], [k |-> "lit", c |-> "i"], [k |-> "lit", c |-> "n"], [k |-> "lit", c |-> "("], [k |-> "lazy", c |-> "any"], [k |-> "lit", c |-> ")"]>>,
     reemplazo |-> <<[g |-> 0, t |-> <<"\\","s","i","n","(">>], [g |-> 1, t |-> <<>>], [g |-> 0, t |-> <<")">>]>>],
    \* cos\((.*?)\)
    [patron |-> <<[k |-> "lit", c |-> "c"], [k |-> "lit", c |-> "o"], [k |-> "lit", c |-> "s"], [k |-> "lit", c |-> "("], [k |-> "lazy", c |-> "any"], [k |-> "lit", c |-> ")"]>>,
     reemplazo |-> <<[g |-> 0, t |-> <<"\\","c","o","s","(">>], [g |-> 1, t |-> <<>>], [g |-> 0, t |-> <<")">>]>>],
    \* tan\((.*?)\)
    [patron |-> <<[k |-> "lit", c |-> "t"], [k |-> "lit", c |-> "a"], [k |-> "lit", c |-> "n"], [k |-> "lit", c |-> "("], [k |-> "lazy", c |-> "any"], [k |-> "lit", c |-> ")"]>>,
     reemplazo |-> <<[g |-> 0, t |-> <<"\\","t","a","n","(">>], [g |-> 1, t |-> <<>>], [g |-> 0, t |-> <<")">>]>>],
    \* log\((.*?)\)
    [patron |-> <<[k |-> "lit", c |-> "l"], [k |-> "lit", c |-> "o"], [k |-> "lit", c |-> "g"], [k |-> "lit", c |-> "("], [k |-> "lazy", c |-> "any"], [k |-> "lit", c |-> ")"]>>,
     reemplazo |-> <<[g |-> 0, t |-> <<"\\","l","o","g","(">>], [g |-> 1, t |-> <<>>], [g |-> 0, t |-> <<")">>]>>],
    \* ln\((.*?)\)
    [patron |-> <<[k |-> "lit", c |-> "l"], [k |-> "lit", c |-> "n"], [k |-> "lit", c |-> "("], [k |-> "lazy", c |-> "any"], [k |-> "lit", c |-> ")"]>>,
     reemplazo |-> <<[g |-> 0, t |-> <<"\\","l","n","(">>], [g |-> 1, t |-> <<>>], [g |-> 0, t |-> <<")">>]>>],
    \* lim_(\w+)->(\w+)
    [patron |-> <<[k |-> "lit", c |-> "l"], [k |-> "lit", c |-> "i"], [k |-> "lit", c |-> "m"], [k |-> "lit", c |-> "_"], [k |-> "plus", c |-> "w"], [k |-> "lit", c |-> "-"], [k |-> "lit", c |-> ">"], [k |-> "plus", c |-> "w"]>>,
     reemplazo |-> <<[g |-> 0, t |-> <<"\\","l","i","m","_","{">>], [g |-> 1, t |-> <<>>], [g |-> 0, t |-> <<" ","\\","t","o"," ">>], [g |-> 2, t |-> <<>>], [g |-> 0, t |-> <<"}">>]>>],
    \* int_(\w+)\^(\w+)
    [patron |-> <<[k |-> "lit", c |-> "i"], [k |-> "lit", c |-> "n"], [k |-> "lit", c |-> "t"], [k |-> "lit", c |-> "_"], [k |-> "plus", c |-> "w"], [k |-> "lit", c |-> "^"], [k |-> "plus", c |-> "w"]>>,
     reemplazo |-> <<[g |-> 0, t |-> <<"\\","i","n","t","_","{">>], [g |-> 1, t |-> <<>>], [g |-> 0, t |-> <<"}","^","{">>], [g |-> 2, t |-> <<>>], [g |-> 0, t |-> <<"}">>]>>],
    \* sum_(\w+)\^(\w+)
    [patron |-> <<[k |-> "lit", c |-> "s"], [k |-> "lit", c |-> "u"], [k |-> "lit", c |-> "m"], [k |-> "lit", c |-> "_"], [k |-> "plus", c |-> "w"], [k |-> "lit", c |-> "^"], [k |-> "plus", c |-> "w"]>>,
     reemplazo |-> <<[g |-> 0, t |-> <<"\\","s","u","m","_","{">>], [g |-> 1, t |-> <<>>], [g |-> 0, t |-> <<"}","^","{">>], [g |-> 2, t |-> <<>>], [g |-> 0, t |-> <<"}">>]>>]
>>

RECURSIVE DirectFrom(_, _)
\* for original, latex in conversiones.items(): resultado.replace(...)
\* (an empty text has nothing to replace)
DirectFrom(resultado, i) ==
    IF i > Len(conversiones) \/ resultado = <<>> THEN resultado
    ELSE DirectFrom(replace(resultado, conversiones[i].original, conversiones[i].latex),
                    i + 1)

RECURSIVE PatronesFrom(_, _)
\* for patron, reemplazo in patrones: re.sub(patron, reemplazo, resultado)
\* (an empty text has nothing to match)
PatronesFrom(resultado, i) ==
    IF i > Len(patrones) \/ resultado = <<>> THEN resultado
    ELSE PatronesFrom(re_sub(patrones[i].patron, patrones[i].reemplazo, resultado), i + 1)

convertir_a_latex(texto) ==
    convert_to_texjs(CollapseWs(PatronesFrom(DirectFrom(texto, 1), 1)))

(***************************************************************************)
(* convertir_a_latex and convert_to_texjs as functions of their argument   *)
(***************************************************************************)
\* number of pieces of the plain texts handed to convertir_a_latex
MaxConvTokens == 3

\* pieces of plain text: a power, a sum sign, a quotient of digits, an index,
\* a root, a product, a limit, a named symbol
ConvTokens == {
    <<"x","^","2">>,
    <<" ","+"," ">>,
    <<"1","/","2">>,
    <<"a","_","b">>,
    <<"s","q","r","t","(","x",")">>,
    <<"3","*","4">>,
    <<"l","i","m","_","x","-",">","0">>,
    <<"p","i">> }

ConvInputs == { Concat(q) : q \in SeqsUpTo(ConvTokens, MaxConvTokens) }

InitConvert ==
    /\ InitProgIdle
    /\ fnArg \in ConvInputs
    /\ fnName = "none"
    /\ fnOut = None

\* resultado is computed, then returned
CallConvertirALatex ==
    \E resultado \in { convertir_a_latex(fnArg) } : Returns("convertir_a_latex", resultado)

CallConvertToTexjs == Returns("convert_to_texjs", convert_to_texjs(fnArg))

NextConvert ==
    \/ CallConvertirALatex
    \/ CallConvertToTexjs

SpecConvert == InitConvert /\ [][NextConvert]_vars

\* the text "x^2 + 1/2"
PowerPlusQuotient == <<"x","^","2"," ","+"," ","1","/","2">>

\* C19: convertir_a_latex applied to "x^2 + 1/2" returns a text that contains
\* both {x}^{2} and \frac{1}{2}
C19_PowerAndFraction ==
    (fnName = "convertir_a_latex" /\ fnArg = PowerPlusQuotient)
        => /\ Contains(fnOut, <<"{","x","}","^","{","2","}">>)
           /\ Contains(fnOut, <<"\\","f","r","a","c","{","1","}","{","2","}">>)

\* C20: when detection hands on no candidate region, process_image does not
\* invoke the inference engine for that image: neither is the thread inside
\* model.generate nor has the whole-image inference been made
C20_NoRegionNoInference ==
    \A t \in Threads :
        (piPc[t] \in {"loop", "gen", "caught"} /\ piRegions[t].found = 0)
            => t \notin inferring /\ ~piWhole[t]

(***************************************************************************)
(* ImageProcessor.contains_math                                            *)
(*                                                                         *)
(* A frame is held as the intensities of its pixels, which the difference  *)
(* to the stored frame is taken from, and the number of its contours that  *)
(* pass the area, aspect-ratio and _check_symbol_features tests, which is  *)
(* what the OpenCV analysis of the frame gives.                            *)
(***************************************************************************)
\* pixels of the largest frame
MaxPixels == 2

\* symbol-like contours of a frame
MaxSymbols == 2

\* np.mean(diff) < 5.0
FrameThreshold == 5

\* math_indicators >= 2
IndicatorsNeeded == 2

Intensities == {0, 4, 10}

Frames ==
    { [pixels |-> px, symbols |-> n] :
          px \in UNION { [1..k -> Intensities] : k \in 1..MaxPixels },
          n \in 0..MaxSymbols }

AbsDiff(a, b) == IF a >= b THEN a - b ELSE b - a

RECURSIVE SumAbsDiff(_, _, _)
\* the sum of cv2.absdiff over the first n pixels
SumAbsDiff(px, qx, n) ==
    IF n = 0 THEN 0 ELSE AbsDiff(px[n], qx[n]) + SumAbsDiff(px, qx, n - 1)

\* cv2.absdiff needs two arrays of one shape
SameShape(image, last) == Len(image.pixels) = Len(last.pixels)

\* the short cut taken also at the threshold
similar_inclusive(image, last) ==
    SumAbsDiff(image.pixels, last.pixels, Len(image.pixels))
        <= FrameThreshold * Len(image.pixels)

\* np.mean(cv2.absdiff(image, self.last_frame)) < 5.0
similar(image, last) ==
    SumAbsDiff(image.pixels, last.pixels, Len(image.pixels))
        < FrameThreshold * Len(image.pixels)

\* the loop over the contours returns True at the second accepted one
math_verdict(image) == image.symbols >= IndicatorsNeeded

\* one call of contains_math(image): it returns the stored verdict for a
\* frame near the stored one, False without storing when absdiff raises on
\* frames of two shapes, and else scores the frame and stores it
ContainsMath(image) ==
    /\ fnArg' = image
    /\ fnName' = "contains_math"
    /\ IF last_frame # NoFrame /\ ~SameShape(image, last_frame)
       THEN fnOut' = FALSE /\ UNCHANGED frameVars
       ELSE IF last_frame # NoFrame /\ similar(image, last_frame)
       THEN fnOut' = last_result /\ UNCHANGED frameVars
       ELSE /\ last_frame' = image
            /\ last_result' = math_verdict(image)
            /\ fnOut' = math_verdict(image)
    /\ UNCHANGED <<pdfVars, pageVars, piVars, sharedVars, httpVars, retryVars>>

InitFrames ==
    /\ InitProgIdle
    /\ InitFnVars

NextFrames == \E image \in Frames : ContainsMath(image)

SpecFrames == InitFrames /\ [][NextFrames]_vars

\* the step is a call of contains_math on a frame of the stored frame's shape
ScoresAgainstStored ==
    /\ fnName' = "contains_math"
    /\ <<fnArg', fnName', fnOut'>> # <<fnArg, fnName, fnOut>> \/ frameVars' # frameVars
    /\ last_frame # NoFrame
    /\ SameShape(fnArg', last_frame)

\* the mean absolute difference of the called frame from the stored one,
\* the sum over the pixels divided by their number, is below 5.0
MeanDiffBelowThreshold ==
    LET n == Len(last_frame.pixels)
    IN  SumAbsDiff(fnArg'.pixels, last_frame.pixels, n) < 5 * n

\* C21: contains_math on a frame whose mean absolute difference from the
\* stored frame is below 5.0 returns the stored verdict and leaves the stored
\* frame and verdict unchanged; on a frame at or above it the frame is scored
\* and replaces both
C21_NearFrameReusesVerdict ==
    [][ScoresAgainstStored =>
          IF MeanDiffBelowThreshold
          THEN fnOut' = last_result /\ UNCHANGED frameVars
          ELSE /\ last_frame' = fnArg'
               /\ last_result' = math_verdict(fnArg')
               /\ fnOut' = math_verdict(fnArg')]_vars

\* a frame at mean difference 4 of a stored frame without symbols was judged
\* by the stored verdict although it has two symbols itself
C21_Witness ==
    /\ fnName = "contains_math"
    /\ last_frame = [pixels |-> <<0, 0>>, symbols |-> 0]
    /\ fnArg = [pixels |-> <<4, 4>>, symbols |-> 2]
    /\ fnOut = FALSE

(***************************************************************************)
(* FormulaDetector.process_image called once, by one of the callers        *)
(***************************************************************************)
InitImage ==
    /\ InitPdfVars /\ docLen = 0
    /\ InitPageVars /\ InitShared /\ InitHttpVars /\ InitFnVars /\ InitFrameVars /\ InitRetryVars
    /\ \E caller \in Threads :
           piPc = [t \in Threads |-> IF t = caller THEN "call" ELSE "idle"]
    /\ piRegions = [t \in Threads |-> NoRegions]
    /\ piWhole = [t \in Threads |-> FALSE]
    /\ piFormulas = [t \in Threads |-> <<>>]
    /\ piResult = [t \in Threads |-> NoResult]

NextImage ==
    \E t \in Threads :
        \/ PiBegin(t)
        \/ PiPreprocessOk(t)
        \/ PiPreprocessFail(t)
        \/ PiDetect(t)
        \/ PiDetectFail(t)
        \/ PiInferRegion(t)
        \/ PiInferWhole(t)
        \/ PiGenerated(t)
        \/ PiGenerateFail(t)
        \/ PiPrepareFail(t)
        \/ PiFormulaCaught(t)
        \/ PiReturn(t)

SpecImage == InitImage /\ [][NextImage]_vars

\* C22: a failure inside process_formula is caught and the call returns an
\* empty list: the step out of its except clause goes back to the loop of
\* process_image with `formulas` and the regions still to process as they
\* were, never to a return of process_image, and process_image reaches its
\* last return only with no region left
C22_InferenceFailureContained ==
    /\ [][\A t \in Threads :
              (piPc[t] = "caught" /\ piPc'[t] # "caught")
                  => /\ piPc'[t] = "loop"
                     /\ piFormulas'[t] = piFormulas[t]
                     /\ piRegions'[t] = piRegions[t]]_vars
    /\ [][\A t \in Threads :
              (piPc[t] \in {"loop", "gen"} /\ piPc'[t] \notin {"loop", "gen"})
                  => \/ piPc'[t] = "caught"
                     \/ piPc'[t] = "ret" /\ piRegions[t].left = 0]_vars

\* process_formula failed on the first of two regions: one is left
C22_Witness ==
    \E t \in Threads :
        /\ piPc[t] = "caught"
        /\ piRegions[t] = [found |-> 2, left |-> 1]

(***************************************************************************)
(* The filter of ModelManager.process_formula as a function of one decoded *)
(* text and its score (scores in hundredths)                               *)
(***************************************************************************)
ScoreHundredths == 0..100

InitFilter ==
    /\ InitProgIdle
    /\ fnArg \in [latex : RawOutputs, score : ScoreHundredths]
    /\ fnName = "none"
    /\ fnOut = None

CallProcessFormulaFilter ==
    Returns("process_formula", process_formula_result(fnArg.latex, fnArg.score))

NextFilter == CallProcessFormulaFilter

SpecFilter == InitFilter /\ [][NextFilter]_vars

\* C23: process_formula discards a candidate whose text survives cleaning
\* exactly when its score is below 0.5: every returned candidate has
\* confidence >= 0.5 and a candidate scored exactly 0.5 is returned
C23_DiscardedExactlyBelowFloor ==
    fnName = "process_formula"
        => /\ \A i \in 1..Len(fnOut) : fnOut[i].confidence >= 50
           /\ clean_formula(fnArg.latex) # None
                  => (fnOut = <<>> <=> fnArg.score < 50)

(***************************************************************************)
(* LatexProcessor.clean_latex as a function of its argument                *)
(*                                                                         *)
(* parse_latex and latex are sympy's: the parser reads a text into an      *)
(* expression or raises, the printer writes the expression.  SympyPrints   *)
(* holds what the two give for the texts of the model: a sum is printed    *)
(* with spaces, \mathit{ab} is read as the one symbol ab and printed as    *)
(* ab, adjacent letters are read as a product and printed with a space.    *)
(***************************************************************************)
SympyPrints == {
    <<<<"x","+","1">>, <<"x"," ","+"," ","1">>>>,
    <<<<"x"," ","+"," ","1">>, <<"x"," ","+"," ","1">>>>,
    <<<<"x">>, <<"x">>>>,
    <<<<"\\","m","a","t","h","i","t","{","a","b","}">>, <<"a","b">>>>,
    <<<<"a","b">>, <<"a"," ","b">>>>,
    <<<<"a"," ","b">>, <<"a"," ","b">>>> }

\* texts parse_latex raises on
SympyRejects == { <<"(","a">>, <<"x","+">>, <<"$","x","$">> }

\* spaces put before and after a text
MaxPad == 2

RECURSIVE Spaces(_)
Spaces(n) == IF n = 0 THEN <<>> ELSE <<" ">> \o Spaces(n - 1)

CleanInputs ==
    { Spaces(l) \o t \o Spaces(r) :
          t \in { pr[1] : pr \in SympyPrints } \cup SympyRejects,
          l \in 0..MaxPad, r \in 0..MaxPad }

\* collapse the whitespace, parse and print; the collapsed text when the
\* parser raises
clean_latex(text) ==
    LET collapsed == CollapseWs(text)
    IN  IF \E pr \in SympyPrints : pr[1] = collapsed
        THEN (CHOOSE pr \in SympyPrints : pr[1] = collapsed)[2]
        ELSE collapsed

InitClean ==
    /\ InitProgIdle
    /\ fnArg \in CleanInputs
    /\ fnName = "none"
    /\ fnOut = None

CallCleanLatex == Returns("clean_latex", clean_latex(fnArg))

\* clean_latex of the text, and clean_latex of what that returned
CallCleanLatexTwice ==
    Returns("clean_latex twice",
            [once |-> clean_latex(fnArg), twice |-> clean_latex(clean_latex(fnArg))])

NextClean ==
    \/ CallCleanLatex
    \/ CallCleanLatexTwice

SpecClean == InitClean /\ [][NextClean]_vars

\* C24: clean_latex is idempotent: cleaning what clean_latex returned gives
\* the same text, whether the parse succeeded or failed
C24_CleanIsIdempotent ==
    fnName = "clean_latex twice" => fnOut.twice = fnOut.once

(***************************************************************************)
(* The visit of one text block by _process_pdf_page, as a function of the  *)
(* block's text                                                            *)
(***************************************************************************)
Delimiters == { [open |-> <<"$">>, close |-> <<"$">>],
                [open |-> <<BS, "[">>, close |-> <<BS, "]">>],
                [open |-> <<BS, "(">>, close |-> <<BS, ")">>] }

\* the words a block can hold around its delimited region
BlockWords == { <<>>, <<"s", "e", "a", " ">>, <<"a", "=", "b", " ">>, <<" ", "y", " ", "-">> }

BlockInputs ==
    Blocks \cup { before \o d.open \o t \o d.close \o after :
                      before \in BlockWords, d \in Delimiters,
                      t \in Texts, after \in BlockWords }

InitBlock ==
    /\ InitProgIdle
    /\ fnArg \in BlockInputs
    /\ fnName = "none"
    /\ fnOut = None

\* what the visit can append to formulas_en_pagina: the texts, None for
\* nothing, one per result the extraction can have
CallVisitBlock ==
    Returns("block visit",
            { block_visit(fnArg, f).add : f \in extract_formula_from_text(fnArg) })

NextBlock == CallVisitBlock

SpecBlock == InitBlock /\ [][NextBlock]_vars

\* the block holds a delimited region whose content passes is_valid_latex
HasValidRegion ==
    \E i \in 1..Len(FormulaMatches(fnArg)) : is_valid_latex(FormulaMatches(fnArg)[i])

\* C25: a text block that contains a delimited region $F$, \[F\] or \(F\)
\* whose content passes is_valid_latex yields a text-origin candidate: the
\* visit appends an entry
C25_ValidRegionYieldsCandidate ==
    (fnName = "block visit" /\ HasValidRegion) => None \notin fnOut

\* C26: for an image whose preprocessing succeeded, process_image returns
\* only after it has invoked the inference engine: on every region found, or
\* on the whole image
C26_InferenceBeforeReturn ==
    [][\A t \in Threads :
           (piPc[t] \in {"detect", "loop"} /\ piPc'[t] \in {"ret", "ret_exc"})
               => \/ piWhole[t]
                  \/ piRegions[t].found > 0 /\ piRegions[t].left = 0]_vars

\* C27: validation starts, process_pdf returns and the document is closed
\* only after every dispatched page unit has completed, with or without an
\* error: from then on no unit is queued or running and every future has
\* been yielded
C27_ValidationAfterAllUnits ==
    (pdfPc \in {"Validated", "Complete"} \/ (pdfPc # "Submitted" /\ ~docOpen))
        => \A p \in DocPages :
               /\ page_count_ok(docLen) => pagePc[p] = "done" /\ future[p] = "yielded"
               /\ pagePc[p] \notin {"queued", "images", "image_call"}

\* validation has begun on a document of two pages, one of whose units
\* failed while the other found a formula, and the document is still open
C27_Witness ==
    /\ pdfPc = "Validated"
    /\ docOpen
    /\ docLen = 2
    /\ \E p, q \in DocPages :
          /\ pageErr[p] = "page"
          /\ formulas_en_pagina[q] # <<>>

(***************************************************************************)
(* procesar_imagen: the loop that saves a detection, entered by each       *)
(* request with the formula it is persisting                               *)
(***************************************************************************)
\* for attempt in range(3)
RetryLimit == 3

\* the entry procesar_imagen inserts
ImagenDoc(latex_formula) == [handler |-> "imagen", formula |-> latex_formula]

\* each request is at the head of the loop, attempt = 0
InitRetry ==
    /\ InitPdfVars /\ docLen = 0
    /\ InitPageVars /\ InitPiVars /\ InitShared /\ InitHttpVars
    /\ InitFnVars /\ InitFrameVars
    /\ attempt = [r \in ReqIds |-> 0]
    /\ retryPc = [r \in ReqIds |-> "try"]
    /\ detection \in [ReqIds -> Texts]

RetryFrame == <<pdfVars, pageVars, piVars, sharedVars, fnVars, frameVars,
                reqPc, reqHandler, reqMethod, reqBody, responses, redisCache,
                pipelineRuns, pdfInserted, pdfStatus, detection>>

\* insert_one returns and the loop goes on to its next iteration
RetryInsertOkNoBreak(r) ==
    /\ retryPc[r] = "try"
    /\ collection' = Append(collection, ImagenDoc(detection[r]))
    /\ retryPc' = [retryPc EXCEPT ![r] =
                      IF attempt[r] + 1 < RetryLimit THEN "sleep" ELSE "after"]
    /\ UNCHANGED <<attempt, RetryFrame>>

\* insert_one returns: break
RetryInsertOk(r) ==
    /\ retryPc[r] = "try"
    /\ collection' = Append(collection, ImagenDoc(detection[r]))
    /\ retryPc' = [retryPc EXCEPT ![r] = "after"]
    /\ UNCHANGED <<attempt, RetryFrame>>

\* insert_one raises: on the last attempt the error is logged and the loop
\* is over, on the others the handler goes to sleep
RetryInsertFail(r) ==
    /\ retryPc[r] = "try"
    /\ retryPc' = [retryPc EXCEPT ![r] =
                      IF attempt[r] = RetryLimit - 1 THEN "after" ELSE "sleep"]
    /\ UNCHANGED <<attempt, collection, RetryFrame>>

\* asyncio.sleep(1) returns; continue: the next iteration begins
RetrySlept(r) ==
    /\ retryPc[r] = "sleep"
    /\ attempt' = [attempt EXCEPT ![r] = @ + 1]
    /\ retryPc' = [retryPc EXCEPT ![r] = "try"]
    /\ UNCHANGED <<collection, RetryFrame>>

NextRetry ==
    \/ \E r \in ReqIds : RetryInsertOk(r)
    \/ \E r \in ReqIds : RetryInsertFail(r)
    \/ \E r \in ReqIds : RetrySlept(r)

SpecRetry == InitRetry /\ [][NextRetry]_vars

\* the request whose step this is an insert attempt of
Attempts(r) == retryPc[r] = "try" /\ retryPc'[r] # "try"

\* C28: the loop of procesar_imagen makes at most 3 insert attempts, the
\* handler sleeps between a failed attempt and the next one, and an insert
\* that succeeds ends the loop, after which the request inserts nothing
C28_BoundedRetry ==
    /\ [][\A r \in ReqIds :
              /\ Attempts(r) => attempt[r] + 1 <= RetryLimit
              /\ (retryPc[r] # "try" /\ retryPc'[r] = "try")
                     => retryPc[r] = "sleep" /\ attempt'[r] = attempt[r] + 1
              /\ (Attempts(r) /\ collection' # collection)
                     => retryPc'[r] = "after"
              /\ (Attempts(r) /\ collection' = collection /\ attempt[r] + 1 < RetryLimit)
                     => retryPc'[r] = "sleep"
              /\ retryPc[r] = "after" => retryPc'[r] = "after"]_vars
    /\ [][collection' # collection
              => \E r \in ReqIds :
                     /\ Attempts(r)
                     /\ collection' = Append(collection, ImagenDoc(detection[r]))]_vars
    /\ [](Len(collection) <= Cardinality({ r \in ReqIds : retryPc[r] = "after" }))

\* the third attempt of a request succeeded after two failures and two
\* sleeps, and its one entry is stored
C28_Witness ==
    \E r \in ReqIds :
        /\ attempt[r] = RetryLimit - 1
        /\ retryPc[r] = "after"
        /\ collection = <<ImagenDoc(detection[r])>>

(***************************************************************************)
(* The four handlers of views.py message by message: every `await send`    *)
(* is a step of its own, and a raise inside a try block is answered by     *)
(* the handler's except clause                                             *)
(***************************************************************************)
Handlers == {"fotograma", "pdf", "imagen", "texto"}

\* what a request carries: an image in which process_image finds a formula
\* or none, bytes that do not decode; an upload with or without the "pdf"
\* file; a JSON object, a JSON value that is no object, bytes that are no JSON
BodiesOf(h) ==
    CASE h \in ImageHandlers -> {"formula", "plain", "undecodable"}
      [] h = "pdf" -> {"file", "nofile"}
      [] h = "texto" -> {"object", "notobject", "notjson"}

StartMsg(status) == [type |-> "http.response.start", status |-> status]

BodyMsg(status) == [type |-> "http.response.body", status |-> status]

RespFrame == <<pdfVars, pageVars, piVars, sharedVars, fnVars, frameVars,
               retryVars, redisCache, pipelineRuns, pdfInserted, pdfStatus>>

\* a request reaches one of the four handlers
RespArrive(r) ==
    /\ reqPc[r] = "none"
    /\ \A q \in ReqIds : q < r => reqPc[q] # "none"
    /\ \E h \in Handlers, m \in Methods :
          \E b \in BodiesOf(h) :
              /\ reqHandler' = [reqHandler EXCEPT ![r] = h]
              /\ reqMethod' = [reqMethod EXCEPT ![r] = m]
              /\ reqBody' = [reqBody EXCEPT ![r] = b]
    /\ reqPc' = [reqPc EXCEPT ![r] = "recv"]
    /\ UNCHANGED <<responses, collection, RespFrame>>

\* the handler sends http.response.start and has the body left to send:
\* `next` is "body" outside a try block and "body_try" inside one
SendStart(r, status, next) ==
    /\ responses' = [responses EXCEPT ![r] = Append(@, StartMsg(status))]
    /\ reqPc' = [reqPc EXCEPT ![r] = next]
    /\ UNCHANGED <<reqHandler, reqMethod, reqBody, collection, RespFrame>>

\* CORS preflight, the first test of every handler
RespOptions(r) ==
    /\ reqPc[r] = "recv"
    /\ reqMethod[r] = "OPTIONS"
    /\ SendStart(r, 200, "body")

\* procesar_fotograma and procesar_texto: a method other than POST
RespNotAllowed(r) ==
    /\ reqPc[r] = "recv"
    /\ reqHandler[r] \in {"fotograma", "texto"}
    /\ reqMethod[r] \notin {"OPTIONS", "POST"}
    /\ SendStart(r, 405, "body")

\* procesar_pdf: no "pdf" among the uploaded files
RespMissingFile(r) ==
    /\ reqPc[r] = "recv"
    /\ reqHandler[r] = "pdf"
    /\ reqMethod[r] # "OPTIONS"
    /\ reqBody[r] = "nofile"
    /\ SendStart(r, 400, "body")

\* the handler enters its try block
RespEnterTry(r) ==
    /\ reqPc[r] = "recv"
    /\ reqMethod[r] # "OPTIONS"
    /\ reqHandler[r] \in {"fotograma", "texto"} => reqMethod[r] = "POST"
    /\ reqHandler[r] = "pdf" => reqBody[r] = "file"
    /\ reqPc' = [reqPc EXCEPT ![r] = "try"]
    /\ UNCHANGED <<reqHandler, reqMethod, reqBody, responses, collection, RespFrame>>

\* what the try block can raise before its first send: ValueError for
\* bytes that do not decode, whatever insert_one or process_pdf raises,
\* TypeError from classify_problem on the list of procesar_imagen,
\* JSONDecodeError, AttributeError for a JSON value without get
MayRaise(h, b) ==
    CASE h = "fotograma" -> b \in {"undecodable", "formula"}
      [] h = "imagen" -> b \in {"undecodable", "formula"}
      [] h = "pdf" -> TRUE
      [] h = "texto" -> b \in {"notobject", "notjson"}

\* what the try block can answer with
Answers(h, b) ==
    CASE h = "fotograma" -> IF b = "formula" THEN {200} ELSE IF b = "plain" THEN {404} ELSE {}
      [] h = "imagen" -> IF b = "plain" THEN {404} ELSE {}
      [] h = "pdf" -> {200}
      [] h = "texto" -> IF b = "object" THEN {200} ELSE {}

\* the status the except clause answers with
ExceptStatus(h, b) == IF h = "texto" /\ b = "notjson" THEN 400 ELSE 500

\* a statement of the try block raises before any message was sent
RespTryRaises(r) ==
    /\ reqPc[r] = "try"
    /\ MayRaise(reqHandler[r], reqBody[r])
    /\ reqPc' = [reqPc EXCEPT ![r] = "except"]
    /\ UNCHANGED <<reqHandler, reqMethod, reqBody, responses, collection, RespFrame>>

\* the try block reaches its response: success or no formula
RespTryAnswers(r) ==
    /\ reqPc[r] = "try"
    /\ \E status \in Answers(reqHandler[r], reqBody[r]) :
           SendStart(r, status, "body_try")

\* the except clause sends the start of the error response
RespExcept(r) ==
    /\ reqPc[r] = "except"
    /\ SendStart(r, ExceptStatus(reqHandler[r], reqBody[r]), "body")

\* the argument of the second send raises inside the try block: the except
\* clause takes over after the start was sent
RespBodyRaising(r) ==
    /\ reqPc[r] \in {"body", "body_try"}
    /\ IF reqPc[r] = "body_try"
       THEN /\ reqPc' = [reqPc EXCEPT ![r] = "except"]
            /\ UNCHANGED responses
       ELSE /\ responses' = [responses EXCEPT ![r] =
                                Append(@, BodyMsg(@[Len(@)].status))]
            /\ reqPc' = [reqPc EXCEPT ![r] = "done"]
    /\ UNCHANGED <<reqHandler, reqMethod, reqBody, collection, RespFrame>>

\* the second send: http.response.body, after which the handler returns
RespBody(r) ==
    /\ reqPc[r] \in {"body", "body_try"}
    /\ responses' = [responses EXCEPT ![r] = Append(@, BodyMsg(@[Len(@)].status))]
    /\ reqPc' = [reqPc EXCEPT ![r] = "done"]
    /\ UNCHANGED <<reqHandler, reqMethod, reqBody, collection, RespFrame>>

NextRespond ==
    \/ \E r \in ReqIds : RespArrive(r)
    \/ \E r \in ReqIds : RespOptions(r)
    \/ \E r \in ReqIds : RespNotAllowed(r)
    \/ \E r \in ReqIds : RespMissingFile(r)
    \/ \E r \in ReqIds : RespEnterTry(r)
    \/ \E r \in ReqIds : RespTryRaises(r)
    \/ \E r \in ReqIds : RespTryAnswers(r)
    \/ \E r \in ReqIds : RespExcept(r)
    \/ \E r \in ReqIds : RespBody(r)

SpecRespond == InitHttp /\ [][NextRespond]_vars

MaxValTokens == 4

ValTokens ==
    { Cmd2(cFrac), Cmd2(cSum), Cmd2(cInt), Cmd2(cSqrt), <<"{">>, <<"x">> }

ValInputs == { Concat(q) : q \in SeqsUpTo(ValTokens, MaxValTokens) }

InitValidate ==
    /\ InitProgIdle
    /\ fnArg \in ValInputs
    /\ fnName = "none"
    /\ fnOut = None

\* the candidate of the text, scored by _calculate_confidence, is handed
\* to _validate_formulas
CallValidateFormulas ==
    \E candidate \in { Candidate(fnArg, 1, "texto") } :
        Returns("_validate_formulas",
                [confidence |-> candidate.confidence,
                 validated |-> validate_formulas(<<candidate>>)])

NextValidate == CallValidateFormulas

SpecValidate == InitValidate /\ [][NextValidate]_vars

PastThreshold == fnName = "_validate_formulas" /\ fnOut.confidence >= PersistThreshold

\* C30: a candidate whose score is at least 90 passes is_valid_latex, so
\* _validate_formulas drops it only when its brackets are not balanced
C30_ThresholdImpliesValid ==
    PastThreshold =>
        /\ is_valid_latex(fnArg)
        /\ fnOut.validated = <<>> => ~check_balanced_structure(fnArg)

\* a candidate scored 95 (long, valid, three counted texts) was dropped for
\* its open brace
C30_Witness ==
    /\ PastThreshold
    /\ fnOut.validated = <<>>
    /\ ~check_balanced_structure(fnArg)
    /\ is_valid_latex(fnArg)

====
